---------------------------- MODULE Spec2Model ----------------------------
(***************************************************************************)
(* Grid / DCA strategy execution and backtest engine of                    *)
(* crypto-trading-strategies.                                              *)
(*                                                                         *)
(* float64 values are modelled as exact rationals [n, d] in lowest terms   *)
(* (d > 0), plus the IEEE values NaN, written [n |-> 0, d |-> 0], whose    *)
(* comparisons are all false, and +Inf / -Inf, written [n |-> 1, d |-> 0]  *)
(* and [n |-> -1, d |-> 0].  Rounding of float64 (round to nearest, ties   *)
(* to even) is represented in three places, at MantissaBits instead of 53  *)
(* significant bits: the sum BacktestGrid accumulates while ranging over a *)
(* map, whose order the runtime chooses, the returns and their mean in     *)
(* computeSharpe / computeVolImpact, whose deviation is compared with 0,   *)
(* and the comparison of analyzeMarketCondition with the constant 0.1.     *)
(* MantissaBits = 5 rounds 1/10, 9/10, 11/10 and 1/3 in the directions 53  *)
(* bits do (the powers of 2 repeat modulo 10 with period 4 and modulo 3    *)
(* with period 2, and 5 = 53 modulo 4).                                    *)
(* time.Time / time.Duration are integers in one unit.                     *)
(***************************************************************************)
EXTENDS Integers, Sequences, FiniteSets, TLC

VARIABLES
    mode,   \* which component this behaviour exercises
    now,    \* wall clock read by time.Now() / time.Since()
    cf,     \* configuration under validation / level construction
    bg,     \* locals of one Engine.BacktestGrid call
    bd,     \* locals of one Engine.BacktestDCA call
    gs,     \* a live GridStrategy with its exchange
    ds,     \* a live DCAStrategy with its exchange
    cs,     \* a live ComboStrategy (its children are ds and gs)
    pf,     \* an equity curve handed to computePerformance
    mk,     \* locals of one analyzeMarketCondition call
    cp,     \* arguments and results of one Engine.CompareStrategies call
    bot,    \* a bot process: main, the trading loop and a monitoring request
    rk,     \* the DCAStrategy of dca.go lines 276-339 with its RiskManager
    last    \* the operation performed by the last step, its input and result

vars == <<mode, now, cf, bg, bd, gs, ds, cs, pf, mk, cp, bot, rk, last>>

-----------------------------------------------------------------------------
(* Bounds of the model *)

MaxBound == 3        \* config prices and amounts range over -1..MaxBound
MaxLevels == 4       \* GridLevels ranges up to MaxLevels
MaxPrice == 5        \* market / candle prices range over 1..MaxPrice
MaxCandles == 2      \* candles fed to one backtest call
MaxTime == 4         \* candle times and the live clock range over 0..MaxTime
MaxInterval == 2     \* DCA intervals range over 1..MaxInterval
MaxInvestments == 2  \* DCA MaxInvestments ranges over 1..MaxInvestments
MaxCurve == 3        \* equity curves handed to computePerformance have 0..MaxCurve samples
MaxEquity == 2       \* their samples range over -1..MaxEquity
MantissaBits == 5    \* significant bits kept where float64 rounding is represented

Idle == [idle |-> TRUE]
Nil == "nil"

-----------------------------------------------------------------------------
(* float64 arithmetic, exact *)

Abs(x) == IF x < 0 THEN -x ELSE x

RECURSIVE GCD(_, _)
GCD(a, b) == IF b = 0 THEN a ELSE GCD(b, a % b)

NaN == [n |-> 0, d |-> 0]
IsNaN(x) == x.d = 0 /\ x.n = 0

\* +Inf is [n |-> 1, d |-> 0], -Inf is [n |-> -1, d |-> 0]
IsInf(x) == x.d = 0 /\ x.n # 0
Sgn(i) == IF i > 0 THEN 1 ELSE IF i < 0 THEN 0 - 1 ELSE 0

Rat(num, den) ==
    IF den = 0 THEN [n |-> Sgn(num), d |-> 0]
    ELSE LET g == GCD(Abs(num), Abs(den))
             s == IF den < 0 THEN -1 ELSE 1
         IN  [n |-> (s * num) \div g, d |-> (s * den) \div g]

R(i) == [n |-> i, d |-> 1]

RNeg(a) == [n |-> 0 - a.n, d |-> a.d]
RAdd(a, b) ==
    IF IsNaN(a) \/ IsNaN(b) THEN NaN
    ELSE IF IsInf(a) /\ IsInf(b) THEN (IF a.n = b.n THEN a ELSE NaN)
    ELSE IF IsInf(a) THEN a
    ELSE IF IsInf(b) THEN b
    ELSE LET g == GCD(a.d, b.d)
         IN  Rat(a.n * (b.d \div g) + b.n * (a.d \div g), (a.d \div g) * b.d)
RSub(a, b) == RAdd(a, RNeg(b))
RMul(a, b) ==
    IF IsNaN(a) \/ IsNaN(b) THEN NaN
    ELSE IF IsInf(a) \/ IsInf(b) THEN Rat(a.n * b.n, 0)
    ELSE LET g1 == GCD(Abs(a.n), b.d)
             g2 == GCD(Abs(b.n), a.d)
         IN  Rat((a.n \div g1) * (b.n \div g2), (a.d \div g2) * (b.d \div g1))
RDiv(a, b) ==
    IF IsNaN(a) \/ IsNaN(b) THEN NaN
    ELSE IF IsInf(a)
    THEN (IF IsInf(b) THEN NaN ELSE IF b.n < 0 THEN RNeg(a) ELSE a)
    ELSE RMul(a, Rat(b.d, b.n))

RLe(a, b) ==
    /\ ~IsNaN(a) /\ ~IsNaN(b)
    /\ IF IsInf(a) /\ IsInf(b) THEN a.n <= b.n ELSE a.n * b.d <= b.n * a.d
RLt(a, b) ==
    /\ ~IsNaN(a) /\ ~IsNaN(b)
    /\ IF IsInf(a) /\ IsInf(b) THEN a.n < b.n ELSE a.n * b.d < b.n * a.d
RGe(a, b) == RLe(b, a)
RGt(a, b) == RLt(b, a)
REq(a, b) == ~IsNaN(a) /\ ~IsNaN(b) /\ a = b


\* 2^k
RECURSIVE Pow2(_)
Pow2(k) == IF k = 0 THEN 1 ELSE 2 * Pow2(k - 1)

\* Round n/d, with 2^(MantissaBits-1) <= n/d < 2^MantissaBits, to the nearest
\* integer, ties to even
RoundInt(n, d) ==
    LET fl == n \div d
        twice == 2 * (n - fl * d)
    IN  IF twice > d \/ (twice = d /\ fl % 2 = 1) THEN fl + 1 ELSE fl

\* 2^MantissaBits
MantissaLimit == Pow2(MantissaBits)

\* Scale the positive n/d by powers of 2 into the mantissa range, round it
\* there and scale it back: e counts the doublings
RECURSIVE RoundScaled(_, _, _)
RoundScaled(n, d, e) ==
    IF n \div d >= MantissaLimit
    THEN (IF n % 2 = 0 THEN RoundScaled(n \div 2, d, e - 1)
          ELSE RoundScaled(n, 2 * d, e - 1))
    ELSE IF 2 * (n \div d) < MantissaLimit
    THEN (IF d % 2 = 0 THEN RoundScaled(n, d \div 2, e + 1)
          ELSE RoundScaled(2 * n, d, e + 1))
    ELSE IF e >= 0 THEN Rat(RoundInt(n, d), Pow2(e))
    ELSE R(RoundInt(n, d) * Pow2(0 - e))

\* The nearest value with MantissaBits significant bits
RoundF(x) ==
    IF IsNaN(x) \/ IsInf(x) \/ x.n = 0 THEN x
    ELSE IF x.n < 0 THEN RNeg(RoundScaled(0 - x.n, x.d, 0))
    ELSE RoundScaled(x.n, x.d, 0)

\* float64 operations with their rounding
FAdd(a, b) == RoundF(RAdd(a, b))
FSub(a, b) == RoundF(RSub(a, b))
FDiv(a, b) == RoundF(RDiv(a, b))

-----------------------------------------------------------------------------
(* Configurations *)

Symbols == {"", "BTCUSDT"}
CfgInts == -1 .. MaxBound

\* types.GridConfig, any field values
GridConfigs ==
    [Symbol : Symbols, UpperPrice : CfgInts, LowerPrice : CfgInts,
     GridLevels : -1 .. MaxLevels, InvestmentPerLevel : CfgInts, Enabled : BOOLEAN]

\* types.DCAConfig, any field values
DCAConfigs ==
    [Symbol : Symbols, InvestmentAmount : CfgInts, Interval : -1 .. MaxInterval,
     MaxInvestments : -1 .. MaxInvestments, PriceThreshold : {0, MaxPrice - 2},
     Enabled : BOOLEAN]

\* GridStrategy.ValidateConfig: the error returned, or Nil
GridStrategy_ValidateConfig(c) ==
    IF c.Symbol = "" THEN "symbol is required"
    ELSE IF c.UpperPrice <= c.LowerPrice THEN "upper price must be greater than lower price"
    ELSE IF c.GridLevels <= 0 THEN "grid levels must be positive"
    ELSE IF c.InvestmentPerLevel <= 0 THEN "investment per level must be positive"
    ELSE Nil

\* Factory.validateGridConfig
validateGridConfig(c) ==
    IF c.Symbol = "" THEN "symbol is required"
    ELSE IF c.UpperPrice <= c.LowerPrice THEN "upper price must be greater than lower price"
    ELSE IF c.GridLevels <= 0 THEN "grid levels must be positive"
    ELSE IF c.InvestmentPerLevel <= 0 THEN "investment per level must be positive"
    ELSE Nil

\* DCAStrategy.ValidateConfig
DCAStrategy_ValidateConfig(c) ==
    IF c.Symbol = "" THEN "symbol is required"
    ELSE IF c.InvestmentAmount <= 0 THEN "investment amount must be positive"
    ELSE IF c.Interval <= 0 THEN "interval must be positive"
    ELSE IF c.MaxInvestments <= 0 THEN "max investments must be positive"
    ELSE Nil

\* Faulty variant of validateConfig: the interval is not checked
validateConfig_NoInterval(c) ==
    IF c.Symbol = "" THEN "symbol is required"
    ELSE IF c.InvestmentAmount <= 0 THEN "investment amount must be positive"
    ELSE IF c.MaxInvestments <= 0 THEN "max investments must be positive"
    ELSE Nil

\* DCAStrategy.validateConfig, used by UpdateConfig
validateConfig(c) ==
    IF c.Symbol = "" THEN "symbol is required"
    ELSE IF c.InvestmentAmount <= 0 THEN "investment amount must be positive"
    ELSE IF c.Interval <= 0 THEN "interval must be positive"
    ELSE IF c.MaxInvestments <= 0 THEN "max investments must be positive"
    ELSE Nil

\* Factory.validateDCAConfig
validateDCAConfig(c) ==
    IF c.Symbol = "" THEN "symbol is required"
    ELSE IF c.InvestmentAmount <= 0 THEN "investment amount must be positive"
    ELSE IF c.Interval <= 0 THEN "interval must be positive"
    ELSE IF c.MaxInvestments <= 0 THEN "max investments must be positive"
    ELSE Nil

-----------------------------------------------------------------------------
(* Grid levels *)

\* Faulty variant of calculateGridLevels: the step divides by GridLevels
calculateGridLevels_StepByCount(c) ==
    LET step == RDiv(R(c.UpperPrice - c.LowerPrice), R(c.GridLevels))
    IN  [i \in 1 .. c.GridLevels |-> RAdd(R(c.LowerPrice), RMul(R(i - 1), step))]

\* GridStrategy.calculateGridLevels: make([]float64, GridLevels) and the
\* arithmetic progression.  With GridLevels = 1 the step is x/0 and the one
\* level is lower + 0*step = NaN.
calculateGridLevels(c) ==
    LET step == RDiv(R(c.UpperPrice - c.LowerPrice), R(c.GridLevels - 1))
    IN  [i \in 1 .. c.GridLevels |-> RAdd(R(c.LowerPrice), RMul(R(i - 1), step))]

\* sort.Float64s, as an insertion sort
RECURSIVE Insert(_, _)
Insert(x, s) ==
    IF s = <<>> THEN <<x>>
    ELSE IF RLe(x, Head(s)) THEN <<x>> \o s
    ELSE <<Head(s)>> \o Insert(x, Tail(s))

RECURSIVE SortFloat64s(_)
SortFloat64s(s) == IF s = <<>> THEN <<>> ELSE Insert(Head(s), SortFloat64s(Tail(s)))

\* Engine.BacktestGrid, lines 12-15: the levels of a call that passed the
\* GridLevels < 2 return
BacktestGrid_levels(c) ==
    LET step == RDiv(R(c.UpperPrice - c.LowerPrice), R(c.GridLevels - 1))
    IN  SortFloat64s([i \in 1 .. c.GridLevels |->
                         RAdd(R(c.LowerPrice), RMul(R(i - 1), step))])

-----------------------------------------------------------------------------
(* Live GridStrategy (internal/strategy/grid.go) *)

Prices == 1 .. MaxPrice

\* Prices between the levels as well: the multiples of one half
HalfPrices == {RDiv(R(n), R(2)) : n \in 0 .. 2 * MaxPrice}

\* Configurations a running bot can hold: main creates the strategy through
\* Factory.CreateGrid and then calls ValidateConfig.
LiveGridConfigs ==
    {c \in GridConfigs : /\ validateGridConfig(c) = Nil
                         /\ GridStrategy_ValidateConfig(c) = Nil
                         /\ c.LowerPrice >= 1}

\* NewGridStrategy.  exchange is the list of orders the exchange accepted;
\* activeOrders maps order IDs to orders; nextID is the next value of
\* generateOrderID (a nanosecond clock reading: fresh for every stored order).
\* metrics.LastUpdate, a timestamp nothing reads, is left out.
NewGridStrategy(c) ==
    [config |-> c,
     gridLevels |-> calculateGridLevels(c),
     activeOrders |-> <<>>,
     metrics |-> [TotalTrades |-> 0, TotalVolume |-> R(0)],
     exchange |-> <<>>,
     nextID |-> 1]

\* findNearestLevels: the first level >= price and the one after it
RECURSIVE findFrom(_, _, _)
findFrom(levels, i, price) ==
    IF i > Len(levels) THEN [buyLevel |-> R(0), sellLevel |-> R(0)]
    ELSE IF RLe(price, levels[i])
         THEN [buyLevel |-> levels[i],
               sellLevel |-> IF i < Len(levels) THEN levels[i + 1] ELSE R(0)]
         ELSE findFrom(levels, i + 1, price)

findNearestLevels(g, price) ==
    IF RLt(price, R(g.config.LowerPrice)) THEN [buyLevel |-> R(0), sellLevel |-> R(0)]
    ELSE IF RGt(price, R(g.config.UpperPrice)) THEN [buyLevel |-> R(0), sellLevel |-> R(0)]
    ELSE findFrom(g.gridLevels, 1, price)

\* Faulty variant of shouldPlaceBuyOrder: the active orders are not consulted
shouldPlaceBuyOrder_NoActiveCheck(g, level, currentPrice) == RLe(currentPrice, level)

shouldPlaceBuyOrder(g, level, currentPrice) ==
    IF \E id \in DOMAIN g.activeOrders :
           REq(g.activeOrders[id].Price, level) /\ g.activeOrders[id].Side = "BUY"
    THEN FALSE
    ELSE RLe(currentPrice, level)

shouldPlaceSellOrder(g, level, currentPrice) ==
    IF \E id \in DOMAIN g.activeOrders :
           REq(g.activeOrders[id].Price, level) /\ g.activeOrders[id].Side = "SELL"
    THEN FALSE
    ELSE RGe(currentPrice, level)

calculateOrderQuantity(g, price) == RDiv(R(g.config.InvestmentPerLevel), price)

GridStrategy_updateMetrics(g, order, price) ==
    [g EXCEPT !.metrics.TotalTrades = @ + 1,
              !.metrics.TotalVolume = RAdd(@, RMul(order.Quantity, price))]

\* placeBuyOrder / placeSellOrder: ok is whether exchange.PlaceOrder succeeds.
\* The result is the strategy afterwards and the error returned.
placeOrder(g, side, level, price, ok) ==
    LET order == [ID |-> g.nextID, Symbol |-> g.config.Symbol, Side |-> side,
                  Type |-> "LIMIT", Quantity |-> calculateOrderQuantity(g, level),
                  Price |-> level]
    IN  IF ~ok
        THEN [g |-> g, err |-> "failed to place order"]
        ELSE [g |-> GridStrategy_updateMetrics(
                        [g EXCEPT !.nextID = @ + 1,
                                  !.exchange = Append(@, order),
                                  !.activeOrders = (order.ID :> order) @@ @],
                        order, price),
              err |-> Nil]

placeBuyOrder(g, level, price, ok) == placeOrder(g, "BUY", level, price, ok)
placeSellOrder(g, level, price, ok) == placeOrder(g, "SELL", level, price, ok)

\* Faulty variant of GridStrategy.Execute: a price outside the grid is
\* reported as an error
GridStrategy_Execute_RangeError(g, price, okBuy, okSell) ==
    IF ~g.config.Enabled THEN [g |-> g, err |-> Nil]
    ELSE IF RLt(price, R(g.config.LowerPrice)) \/ RGt(price, R(g.config.UpperPrice))
    THEN [g |-> g, err |-> "price out of range"]
    ELSE
      LET near == findNearestLevels(g, price)
          b == IF RGt(near.buyLevel, R(0)) /\ shouldPlaceBuyOrder(g, near.buyLevel, price)
               THEN placeBuyOrder(g, near.buyLevel, price, okBuy)
               ELSE [g |-> g, err |-> Nil]
      IN  IF b.err # Nil THEN b
          ELSE IF RGt(near.sellLevel, R(0))
                  /\ shouldPlaceSellOrder(b.g, near.sellLevel, price)
               THEN placeSellOrder(b.g, near.sellLevel, price, okSell)
               ELSE b

\* GridStrategy.Execute under the write lock
GridStrategy_Execute(g, price, okBuy, okSell) ==
    IF ~g.config.Enabled THEN [g |-> g, err |-> Nil]
    ELSE IF RLt(price, R(g.config.LowerPrice)) \/ RGt(price, R(g.config.UpperPrice))
    THEN [g |-> g, err |-> Nil]
    ELSE
      LET near == findNearestLevels(g, price)
          b == IF RGt(near.buyLevel, R(0)) /\ shouldPlaceBuyOrder(g, near.buyLevel, price)
               THEN placeBuyOrder(g, near.buyLevel, price, okBuy)
               ELSE [g |-> g, err |-> Nil]
      IN  IF b.err # Nil THEN b
          ELSE IF RGt(near.sellLevel, R(0))
                  /\ shouldPlaceSellOrder(b.g, near.sellLevel, price)
               THEN placeSellOrder(b.g, near.sellLevel, price, okSell)
               ELSE b

\* GridStrategy.GetSignal: the signal type
GridStrategy_GetSignal(g, price) ==
    IF ~g.config.Enabled THEN "HOLD"
    ELSE IF RLt(price, R(g.config.LowerPrice)) \/ RGt(price, R(g.config.UpperPrice))
    THEN "HOLD"
    ELSE
      LET near == findNearestLevels(g, price)
      IN  IF RGt(near.buyLevel, R(0)) /\ shouldPlaceBuyOrder(g, near.buyLevel, price)
          THEN "BUY"
          ELSE IF RGt(near.sellLevel, R(0))
                  /\ shouldPlaceSellOrder(g, near.sellLevel, price)
          THEN "SELL"
          ELSE "HOLD"

-----------------------------------------------------------------------------
(* Live DCAStrategy (internal/strategy/dca.go, lines 1-265) *)

\* The zero time.Time of a fresh strategy: further back than any interval
ZeroTime == 0 - (MaxInterval + MaxTime + 1)

\* Configurations a running bot can hold: Factory.CreateDCA validates
LiveDCAConfigs ==
    {c \in DCAConfigs : validateDCAConfig(c) = Nil /\ c.InvestmentAmount = 1}

\* Arguments of UpdateConfig
UpdateConfigArgs ==
    [Symbol : Symbols, InvestmentAmount : {0, 1}, Interval : {0, MaxInterval},
     MaxInvestments : {0, 1}, PriceThreshold : {0}, Enabled : {TRUE}]

\* Prices fed to the DCA and Combo strategies: below and above the threshold
LivePrices == {MaxPrice - 3, MaxPrice - 1}

\* NewDCAStrategy; exchange is the list of orders the exchange accepted.
NewDCAStrategy(c) ==
    [config |-> c,
     lastBuy |-> ZeroTime,
     buyCount |-> 0,
     metrics |-> [TotalTrades |-> 0, TotalVolume |-> R(0)],
     exchange |-> <<>>]

\* time.Since(d.lastBuy)
Since(t, clock) == clock - t

\* Faulty variant of calculateQuantity: the quotient is inverted
calculateQuantity_Inverted(d, price) == RDiv(price, R(d.config.InvestmentAmount))

calculateQuantity(d, price) == RDiv(R(d.config.InvestmentAmount), price)

\* Faulty variant of updateMetrics: the trade is not counted
DCAStrategy_updateMetrics_NoCount(d, order, price) ==
    [d EXCEPT !.metrics.TotalVolume = RAdd(@, RMul(order.Quantity, price))]

DCAStrategy_updateMetrics(d, order, price) ==
    [d EXCEPT !.metrics.TotalTrades = @ + 1,
              !.metrics.TotalVolume = RAdd(@, RMul(order.Quantity, price))]

\* Faulty variant of executeBuy: the buy is counted before the order is placed
executeBuy_CountFirst(d, price, clock, ok) ==
    LET order == [Symbol |-> d.config.Symbol, Side |-> "BUY", Type |-> "MARKET",
                  Quantity |-> calculateQuantity(d, price), Price |-> price]
        counted == [d EXCEPT !.lastBuy = clock, !.buyCount = @ + 1]
    IN  IF ~ok
        THEN [d |-> counted, err |-> "failed to place order"]
        ELSE [d |-> DCAStrategy_updateMetrics(
                        [counted EXCEPT !.exchange = Append(@, order)], order, price),
              err |-> Nil]

\* executeBuy: ok is whether exchange.PlaceOrder succeeds
executeBuy(d, price, clock, ok) ==
    LET order == [Symbol |-> d.config.Symbol, Side |-> "BUY", Type |-> "MARKET",
                  Quantity |-> calculateQuantity(d, price), Price |-> price]
    IN  IF ~ok
        THEN [d |-> d, err |-> "failed to place order"]
        ELSE [d |-> DCAStrategy_updateMetrics(
                        [d EXCEPT !.exchange = Append(@, order),
                                  !.lastBuy = clock,
                                  !.buyCount = @ + 1],
                        order, price),
              err |-> Nil]

\* Faulty variant of DCAStrategy.Execute: MaxInvestments is not consulted
DCAStrategy_Execute_NoMax(d, price, clock, ok) ==
    IF ~d.config.Enabled THEN [d |-> d, err |-> Nil]
    ELSE IF Since(d.lastBuy, clock) < d.config.Interval THEN [d |-> d, err |-> Nil]
    ELSE IF d.config.PriceThreshold > 0 /\ RGt(price, R(d.config.PriceThreshold))
    THEN [d |-> d, err |-> Nil]
    ELSE executeBuy(d, price, clock, ok)

\* DCAStrategy.Execute under the write lock
DCAStrategy_Execute(d, price, clock, ok) ==
    IF ~d.config.Enabled THEN [d |-> d, err |-> Nil]
    ELSE IF Since(d.lastBuy, clock) < d.config.Interval THEN [d |-> d, err |-> Nil]
    ELSE IF d.buyCount >= d.config.MaxInvestments THEN [d |-> d, err |-> Nil]
    ELSE IF d.config.PriceThreshold > 0 /\ RGt(price, R(d.config.PriceThreshold))
    THEN [d |-> d, err |-> Nil]
    ELSE executeBuy(d, price, clock, ok)

\* DCAStrategy.GetSignal: the signal type
DCAStrategy_GetSignal(d, price, clock) ==
    IF d.config.PriceThreshold > 0 /\ RGt(price, R(d.config.PriceThreshold)) THEN "HOLD"
    ELSE IF Since(d.lastBuy, clock) < d.config.Interval THEN "HOLD"
    ELSE IF d.buyCount >= d.config.MaxInvestments THEN "HOLD"
    ELSE "BUY"

\* DCAStrategy.UpdateConfig
DCAStrategy_UpdateConfig(d, c) ==
    LET err == validateConfig(c)
    IN  IF err # Nil THEN [d |-> d, err |-> err]
        ELSE [d |-> [d EXCEPT !.config = c], err |-> Nil]

-----------------------------------------------------------------------------
(* Live ComboStrategy (internal/strategy/combo.go, lines 107-467) over one *)
(* DCA child followed by one Grid child, equal weights                     *)

\* NewComboStrategy; of the metrics only TotalTrades and TotalVolume can
\* become non-zero (no child ever records a win, a loss or a profit).
NewComboStrategy(enabled) ==
    [config |-> [Enabled |-> enabled],
     metrics |-> [TotalTrades |-> 0, TotalVolume |-> R(0)]]

\* ComboStrategy.updateMetrics
ComboStrategy_updateMetrics(c, d, g) ==
    [c EXCEPT !.metrics.TotalTrades = d.metrics.TotalTrades + g.metrics.TotalTrades,
              !.metrics.TotalVolume = RAdd(d.metrics.TotalVolume, g.metrics.TotalVolume)]

\* Faulty variant of ComboStrategy.Execute: Enabled is not consulted
ComboStrategy_Execute_NoEnabled(c, d, g, price, clock, okDca, okBuy, okSell) ==
    LET rd == DCAStrategy_Execute(d, price, clock, okDca)
        rg == GridStrategy_Execute(g, price, okBuy, okSell)
    IN  [c |-> ComboStrategy_updateMetrics(c, rd.d, rg.g),
         d |-> rd.d, g |-> rg.g, err |-> Nil]

\* ComboStrategy.Execute: a child's error is logged and the loop goes on
ComboStrategy_Execute(c, d, g, price, clock, okDca, okBuy, okSell) ==
    IF ~c.config.Enabled THEN [c |-> c, d |-> d, g |-> g, err |-> Nil]
    ELSE LET rd == DCAStrategy_Execute(d, price, clock, okDca)
             rg == GridStrategy_Execute(g, price, okBuy, okSell)
         IN  [c |-> ComboStrategy_updateMetrics(c, rd.d, rg.g),
              d |-> rd.d, g |-> rg.g, err |-> Nil]

\* ComboStrategy.GetSignal: the signal type.  Strengths are 1.0 (DCA) and
\* 0.8 (Grid), each weight is 1/2, the hold threshold is 0.3.
ComboStrategy_GetSignal(c, d, g, price, clock) ==
    IF ~c.config.Enabled THEN "HOLD"
    ELSE
      LET sd == DCAStrategy_GetSignal(d, price, clock)
          sg == GridStrategy_GetSignal(g, price)
          w == Rat(1, 2)
          str1 == IF sd = "HOLD" THEN R(0) ELSE RMul(R(1), w)
          tot1 == IF sd = "HOLD" THEN R(0) ELSE w
          typ1 == IF sd = "HOLD" THEN "" ELSE sd
          str2 == IF sg = "HOLD" THEN str1 ELSE RAdd(str1, RMul(Rat(4, 5), w))
          tot2 == IF sg = "HOLD" THEN tot1 ELSE RAdd(tot1, w)
          typ2 == IF sg = "HOLD" THEN typ1 ELSE sg
          strength == IF RGt(tot2, R(0)) THEN RDiv(str2, tot2) ELSE str2
      IN  IF RLt(strength, Rat(3, 10)) THEN "HOLD" ELSE typ2

-----------------------------------------------------------------------------
(* Performance calculator (internal/backtest/metrics.go).  The results of   *)
(* math.Sqrt and math.Pow that are not 0 are kept as terms: [stdev |-> r]   *)
(* is the square root of the variance of the returns r, [num |-> m,         *)
(* den |-> x] is m / x for a term x, [times100 |-> x] is x * 100.0 and      *)
(* [pow |-> r, period |-> p] is (math.Pow(r, 1/years) - 1) * 100.0 for the  *)
(* years of period p.                                                       *)

\* PerformanceMetrics{}
ZeroMetrics ==
    [TotalReturn |-> R(0), AnnualizedReturn |-> R(0), MaxDrawdown |-> R(0),
     SharpeRatio |-> R(0), TradeCount |-> 0, WinRate |-> R(0),
     TotalFees |-> R(0), VolatilityImpact |-> R(0)]

\* lines 37-44: the loop of computeMaxDrawdown from element i on
RECURSIVE maxDrawdownLoop(_, _, _, _)
maxDrawdownLoop(e, i, peak, maxDD) ==
    IF i > Len(e) THEN maxDD
    ELSE LET v == e[i]
             pk == IF RGt(v, peak) THEN v ELSE peak
             dd == RDiv(RSub(pk, v), pk)
         IN  maxDrawdownLoop(e, i + 1, pk, IF RGt(dd, maxDD) THEN dd ELSE maxDD)

\* A mutation of computeMaxDrawdown that measures every drop from the first
\* sample
computeMaxDrawdown_FirstPeak(e) ==
    LET dd == [i \in DOMAIN e |-> RDiv(RSub(e[1], e[i]), e[1])]
    IN  IF \E i \in DOMAIN e : RGt(dd[i], R(0))
        THEN CHOOSE d \in {dd[i] : i \in DOMAIN e} :
                 \A i \in DOMAIN e : ~RGt(dd[i], d)
        ELSE R(0)

computeMaxDrawdown(e) == maxDrawdownLoop(e, 1, e[1], R(0))

\* lines 50-54 and 71-75: the step returns in float64, skipping a step whose
\* previous equity is 0
RECURSIVE stepReturns(_, _)
stepReturns(e, i) ==
    IF i > Len(e) THEN <<>>
    ELSE IF REq(e[i - 1], R(0)) THEN stepReturns(e, i + 1)
    ELSE <<FSub(FDiv(RoundF(e[i]), RoundF(e[i - 1])), R(1))>> \o stepReturns(e, i + 1)

\* lines 56-58: mean += r over the first i returns, then mean /= len
RECURSIVE sumTo(_, _)
sumTo(s, i) == IF i = 0 THEN R(0) ELSE FAdd(sumTo(s, i - 1), s[i])
meanOf(rets) == FDiv(sumTo(rets, Len(rets)), R(Len(rets)))

\* lines 59-62: v is a sum of squares d*d with d = r - mean, so v, and with
\* it sd = math.Sqrt(v), is 0 exactly when every d is 0
zeroDeviation(rets) ==
    LET mean == meanOf(rets)
    IN  \A i \in DOMAIN rets : FSub(rets[i], mean) = R(0)

\* lines 47-66; sd that is not 0 is the term [stdev |-> rets], and mean / sd
\* the term [num |-> mean, den |-> sd]
computeSharpe(e) ==
    IF Len(e) < 2 THEN R(0)
    ELSE LET rets == stepReturns(e, 2)
         IN  IF Len(rets) = 0 THEN R(0)
             ELSE IF zeroDeviation(rets) THEN R(0)
             ELSE [num |-> meanOf(rets), den |-> [stdev |-> rets]]

\* lines 68-84
computeVolImpact(e) ==
    IF Len(e) < 2 THEN R(0)
    ELSE LET rets == stepReturns(e, 2)
         IN  IF Len(rets) = 0 THEN R(0)
             ELSE IF zeroDeviation(rets) THEN R(0)
             ELSE [stdev |-> rets]

\* x * 100.0
Times100(x) == IF "stdev" \in DOMAIN x THEN [times100 |-> x] ELSE RMul(x, R(100))

\* computePerformance; period is end.Sub(start)
computePerformance(equity, period, trades, wins, totalFees) ==
    IF Len(equity) = 0 THEN ZeroMetrics
    ELSE LET start == equity[1]
             end == equity[Len(equity)]
         IN  [TotalReturn |-> RMul(RSub(RDiv(end, start), R(1)), R(100)),
              AnnualizedReturn |->
                  IF period > 0 THEN [pow |-> RDiv(end, start), period |-> period]
                  ELSE R(0),
              MaxDrawdown |-> RMul(computeMaxDrawdown(equity), R(100)),
              SharpeRatio |-> computeSharpe(equity),
              TradeCount |-> trades,
              WinRate |-> IF trades > 0 THEN RMul(RDiv(R(wins), R(trades)), R(100))
                          ELSE R(0),
              TotalFees |-> totalFees,
              VolatilityImpact |-> Times100(computeVolImpact(equity))]

\* The equity curve of scenario C
ScenarioC == <<R(10000), R(9000), R(11000)>>

\* A curve that loses two thirds of its value at every step
ConstantDecline == <<R(27), R(9), R(3), R(1)>>

\* Arguments of computePerformance: the curves of at most MaxCurve samples,
\* the periods, and the trade and win counts a back-test passes
EquityValues == {R(v) : v \in (0 - 1) .. MaxEquity}
RECURSIVE CurvesOfLen(_)
CurvesOfLen(k) ==
    IF k = 0 THEN {<<>>}
    ELSE {Append(c, v) : c \in CurvesOfLen(k - 1), v \in EquityValues}
Curves == UNION {CurvesOfLen(k) : k \in 0 .. MaxCurve} \cup {ScenarioC, ConstantDecline}
Periods == {0, 1}
TradeCounts == 0 .. 2
FeeTotals == {Rat(1, 10)}

-----------------------------------------------------------------------------
(* Engine.BacktestGrid (internal/backtest/grid.go) *)

FeeRates == {R(0), Rat(1, 10)}

\* Arguments of the backtest calls: the configuration is not validated there
BTGridConfigs ==
    [Symbol : {"BTCUSDT"}, UpperPrice : {MaxPrice - 1}, LowerPrice : {2},
     GridLevels : 2 .. MaxLevels - 1, InvestmentPerLevel : {-1, 1, 2}, Enabled : {TRUE}]

\* The configuration of scenario A, run without fee over the closes 40000,
\* 45000 and 50000
ScenarioA ==
    [Symbol |-> "BTCUSDT", UpperPrice |-> 50000, LowerPrice |-> 40000,
     GridLevels |-> 5, InvestmentPerLevel |-> 100, Enabled |-> TRUE]
ScenarioACloses == {40000, 45000, 50000}
ScenarioABalances == {100, 1000}

\* A configuration with equal bounds, which the backtest takes as it comes
FlatGrid ==
    [Symbol |-> "BTCUSDT", UpperPrice |-> 2, LowerPrice |-> 2,
     GridLevels |-> 2, InvestmentPerLevel |-> 1, Enabled |-> TRUE]

pos0 == [qty |-> R(0), avg |-> R(0)]

\* The locals of BacktestGrid before the candle loop.  t and n are the time
\* of the last candle read (-1 before the first) and the number of candles
\* read.
BacktestGrid_init(c, feeRate, start, end, initialBalance) ==
    [cfg |-> c, feeRate |-> feeRate, start |-> start, end |-> end,
     initialBalance |-> initialBalance,
     levels |-> BacktestGrid_levels(c),
     positions |-> [i \in 1 .. c.GridLevels |-> pos0],
     cash |-> R(initialBalance), totalFees |-> R(0), trades |-> 0, wins |-> 0,
     equity |-> <<>>, invQty |-> R(0), t |-> 0 - 1, n |-> 0, done |-> FALSE]

\* Faulty variant of buyLoop: the fee is not taken out of the quantity bought
RECURSIVE buyLoop_FeeNotDeducted(_, _, _, _)
buyLoop_FeeNotDeducted(b, i, p, buys) ==
    IF i > Len(b.levels) THEN [b |-> b, buys |-> buys]
    ELSE IF /\ RLe(p, b.levels[i])
            /\ REq(b.positions[i].qty, R(0))
            /\ RGe(b.cash, R(b.cfg.InvestmentPerLevel))
    THEN LET fee == RMul(R(b.cfg.InvestmentPerLevel), b.feeRate)
             qty == RDiv(R(b.cfg.InvestmentPerLevel), p)
         IN  buyLoop_FeeNotDeducted(
                 [b EXCEPT !.positions[i] = [qty |-> qty, avg |-> p],
                           !.cash = RSub(@, R(b.cfg.InvestmentPerLevel)),
                           !.totalFees = RAdd(@, fee),
                           !.trades = @ + 1],
                 i + 1, p, buys \cup {i})
    ELSE buyLoop_FeeNotDeducted(b, i + 1, p, buys)

\* lines 30-41: the buy loop from level i on; buys collects the levels bought
RECURSIVE buyLoop(_, _, _, _)
buyLoop(b, i, p, buys) ==
    IF i > Len(b.levels) THEN [b |-> b, buys |-> buys]
    ELSE IF /\ RLe(p, b.levels[i])
            /\ REq(b.positions[i].qty, R(0))
            /\ RGe(b.cash, R(b.cfg.InvestmentPerLevel))
    THEN LET fee == RMul(R(b.cfg.InvestmentPerLevel), b.feeRate)
             qty == RDiv(RSub(R(b.cfg.InvestmentPerLevel), fee), p)
         IN  buyLoop([b EXCEPT !.positions[i] = [qty |-> qty, avg |-> p],
                               !.cash = RSub(@, R(b.cfg.InvestmentPerLevel)),
                               !.totalFees = RAdd(@, fee),
                               !.trades = @ + 1],
                     i + 1, p, buys \cup {i})
    ELSE buyLoop(b, i + 1, p, buys)

\* Faulty variant of sellLoop: the loop stops one level early
RECURSIVE sellLoop_StopsEarly(_, _, _, _)
sellLoop_StopsEarly(b, i, p, sells) ==
    IF i > Len(b.levels) - 2 THEN [b |-> b, sells |-> sells]
    ELSE IF RGt(b.positions[i].qty, R(0)) /\ RGe(p, b.levels[i + 1])
    THEN LET qty == b.positions[i].qty
             proceeds == RMul(qty, p)
             fee == RMul(proceeds, b.feeRate)
         IN  sellLoop_StopsEarly(
                 [b EXCEPT !.cash = RAdd(@, RSub(proceeds, fee)),
                           !.wins = IF RGe(p, b.positions[i].avg) THEN @ + 1 ELSE @,
                           !.totalFees = RAdd(@, fee),
                           !.positions[i] = pos0,
                           !.trades = @ + 1],
                 i + 1, p, sells \cup {i})
    ELSE sellLoop_StopsEarly(b, i + 1, p, sells)

\* lines 43-55: the sell loop from level i on; sells collects the levels sold
RECURSIVE sellLoop(_, _, _, _)
sellLoop(b, i, p, sells) ==
    IF i > Len(b.levels) - 1 THEN [b |-> b, sells |-> sells]
    ELSE IF RGt(b.positions[i].qty, R(0)) /\ RGe(p, b.levels[i + 1])
    THEN LET qty == b.positions[i].qty
             proceeds == RMul(qty, p)
             fee == RMul(proceeds, b.feeRate)
         IN  sellLoop([b EXCEPT !.cash = RAdd(@, RSub(proceeds, fee)),
                                !.wins = IF RGe(p, b.positions[i].avg) THEN @ + 1 ELSE @,
                                !.totalFees = RAdd(@, fee),
                                !.positions[i] = pos0,
                                !.trades = @ + 1],
                      i + 1, p, sells \cup {i})
    ELSE sellLoop(b, i + 1, p, sells)

RECURSIVE SumQty(_, _)
SumQty(positions, i) ==
    IF i > Len(positions) THEN R(0)
    ELSE RAdd(positions[i].qty, SumQty(positions, i + 1))

\* A mutation of BacktestGrid_trade whose window excludes its end
BacktestGrid_trade_EndExclusive(b, time, close) ==
    LET read == [b EXCEPT !.t = time, !.n = @ + 1]
    IN  IF time < b.start \/ time >= b.end
        THEN [b |-> read, retained |-> FALSE, buys |-> {}, sells |-> {}]
        ELSE LET bought == buyLoop(read, 1, R(close), {})
                 sold == sellLoop(bought.b, 1, R(close), {})
             IN  [b |-> sold.b, retained |-> TRUE,
                  buys |-> bought.buys, sells |-> sold.sells]

\* lines 26-55: the candle is read and, inside the window, traded
BacktestGrid_trade(b, time, close) ==
    LET read == [b EXCEPT !.t = time, !.n = @ + 1]
    IN  IF time < b.start \/ time > b.end
        THEN [b |-> read, retained |-> FALSE, buys |-> {}, sells |-> {}]
        ELSE LET bought == buyLoop(read, 1, R(close), {})
                 sold == sellLoop(bought.b, 1, R(close), {})
             IN  [b |-> sold.b, retained |-> TRUE,
                  buys |-> bought.buys, sells |-> sold.sells]

\* The keys of the positions map whose quantity is not 0 (adding 0.0 is
\* exact, so the other entries leave the sum as it is)
heldKeys(positions) == {i \in DOMAIN positions : positions[i].qty # R(0)}

\* line 58: the orders in which range may visit those keys
RangeOrders(keys) ==
    {o \in [1 .. Cardinality(keys) -> keys] :
        \A i, j \in DOMAIN o : i # j => o[i] # o[j]}

\* line 58: invQty += ps.qty along the first i keys of order o, in float64
RECURSIVE invQtyAlong(_, _, _)
invQtyAlong(positions, o, i) ==
    IF i = 0 THEN R(0)
    ELSE FAdd(invQtyAlong(positions, o, i - 1), RoundF(positions[o[i]].qty))

\* lines 57-59: the sums the visiting orders of range can produce
invQtySums(positions) ==
    {invQtyAlong(positions, o, Len(o)) : o \in RangeOrders(heldKeys(positions))}

\* lines 26-60: one iteration of the candle loop, invQty being the sum the
\* visiting order of range produced.  equity keeps the exact sample, invQty
\* the float64 sum the sample was computed from.
BacktestGrid_candle(b, time, close, invQty) ==
    LET r == BacktestGrid_trade(b, time, close)
    IN  IF ~r.retained THEN r
        ELSE [r EXCEPT !.b.equity =
                           Append(@, RAdd(r.b.cash,
                                          RMul(SumQty(r.b.positions, 1), R(close)))),
                       !.b.invQty = invQty]

\* lines 11 and 62: what BacktestGrid returns once the candles are exhausted
BacktestGrid_return(b) ==
    IF b.cfg.GridLevels < 2 THEN ZeroMetrics
    ELSE computePerformance(b.equity, b.end - b.start, b.trades, b.wins, b.totalFees)

-----------------------------------------------------------------------------
(* Engine.BacktestDCA (src/unnamed/part_004) *)

BTDCAConfigs ==
    [Symbol : {"BTCUSDT"}, InvestmentAmount : {1, 2}, Interval : 1 .. MaxInterval,
     MaxInvestments : 1 .. MaxInvestments, PriceThreshold : {0, MaxPrice - 2},
     Enabled : {TRUE}]

\* The configuration of scenario B, with the day as the unit of time, run
\* over the closes 45000 and 44000
ScenarioB ==
    [Symbol |-> "BTCUSDT", InvestmentAmount |-> 100, Interval |-> 1,
     MaxInvestments |-> 2, PriceThreshold |-> 0, Enabled |-> TRUE]
ScenarioBCloses == {44000, 45000}
ScenarioBBalances == {150, 200, 1000}

NoBuy == 0 - 1

\* The locals of BacktestDCA before the candle loop.  t and n are the time of
\* the last candle read (-1 before the first) and the number of candles read,
\* lastClose the close
\* of that candle (0 before the first); hLastBuy is the time of the candle of
\* the latest buy (NoBuy before the first), kept for the properties only.
BacktestDCA_init(c, feeRate, start, end, initialBalance) ==
    [cfg |-> c, feeRate |-> feeRate, start |-> start, end |-> end,
     initialBalance |-> initialBalance,
     cash |-> R(initialBalance), qty |-> R(0), totalFees |-> R(0),
     trades |-> 0, wins |-> 0, nextBuy |-> start, equity |-> <<>>,
     t |-> 0 - 1, n |-> 0, lastClose |-> 0, hLastBuy |-> NoBuy, done |-> FALSE]

\* A mutation of BacktestDCA_candle that invests the configured amount even
\* when the cash is short of it
BacktestDCA_candle_NoCap(b, time, close) ==
    LET read == [b EXCEPT !.t = time, !.n = @ + 1, !.lastClose = close]
        price == R(close)
    IN  IF time < b.start \/ time > b.end
        THEN [b |-> read, retained |-> FALSE, bought |-> FALSE]
        ELSE IF /\ ~(b.nextBuy > time)
                /\ b.trades < b.cfg.MaxInvestments
                /\ b.cfg.InvestmentAmount > 0
                /\ RGt(b.cash, R(0))
        THEN LET invest == R(b.cfg.InvestmentAmount)
                 fee == RMul(invest, b.feeRate)
                 qty == RAdd(b.qty, RDiv(invest, price))
                 cash == RSub(b.cash, invest)
             IN  [b |-> [read EXCEPT !.totalFees = RAdd(@, fee),
                                     !.qty = qty,
                                     !.cash = cash,
                                     !.trades = @ + 1,
                                     !.nextBuy = @ + b.cfg.Interval,
                                     !.equity = Append(@, RAdd(cash, RMul(qty, price))),
                                     !.hLastBuy = time],
                  retained |-> TRUE, bought |-> TRUE]
        ELSE [b |-> [read EXCEPT !.equity = Append(@, RAdd(b.cash, RMul(b.qty, price)))],
              retained |-> TRUE, bought |-> FALSE]

\* lines 18-32: one iteration of the candle loop
BacktestDCA_candle(b, time, close) ==
    LET read == [b EXCEPT !.t = time, !.n = @ + 1, !.lastClose = close]
        price == R(close)
    IN  IF time < b.start \/ time > b.end
        THEN [b |-> read, retained |-> FALSE, bought |-> FALSE]
        ELSE IF /\ ~(b.nextBuy > time)
                /\ b.trades < b.cfg.MaxInvestments
                /\ b.cfg.InvestmentAmount > 0
                /\ RGt(b.cash, R(0))
        THEN LET invest == IF RGt(R(b.cfg.InvestmentAmount), b.cash)
                           THEN b.cash ELSE R(b.cfg.InvestmentAmount)
                 fee == RMul(invest, b.feeRate)
                 qty == RAdd(b.qty, RDiv(RSub(invest, fee), price))
                 cash == RSub(b.cash, invest)
             IN  [b |-> [read EXCEPT !.totalFees = RAdd(@, fee),
                                     !.qty = qty,
                                     !.cash = cash,
                                     !.trades = @ + 1,
                                     !.nextBuy = @ + b.cfg.Interval,
                                     !.equity = Append(@, RAdd(cash, RMul(qty, price))),
                                     !.hLastBuy = time],
                  retained |-> TRUE, bought |-> TRUE]
        ELSE [b |-> [read EXCEPT !.equity = Append(@, RAdd(b.cash, RMul(b.qty, price)))],
              retained |-> TRUE, bought |-> FALSE]

\* line 36: the average buy price of the wins proxy
BacktestDCA_avg(b) ==
    RDiv(RSub(RSub(R(b.initialBalance), b.cash), b.totalFees), b.qty)

\* lines 35-38: the wins proxy; candles[len(candles)-1] is the last candle
\* of the slice, inside the window or not
BacktestDCA_wins(b) ==
    IF RGt(b.qty, R(0)) /\ RGt(R(b.lastClose), BacktestDCA_avg(b))
    THEN b.trades ELSE b.wins

\* A mutation of BacktestDCA_return without the test of line 33
BacktestDCA_return_NoEmptyTest(b) ==
    computePerformance(<<R(b.initialBalance)>> \o b.equity, b.end - b.start,
                       b.trades, BacktestDCA_wins(b), b.totalFees)

\* lines 33-39: what BacktestDCA returns once the candles are exhausted
BacktestDCA_return(b) ==
    IF Len(b.equity) = 0 THEN ZeroMetrics
    ELSE computePerformance(b.equity, b.end - b.start, b.trades,
                            BacktestDCA_wins(b), b.totalFees)

-----------------------------------------------------------------------------
(* analyzeMarketCondition (part_005) *)

\* Closes of the candles classified: 0 is what LoadCSV stores for a field it
\* cannot parse, 10 -> 11 is a rise of exactly 10% and 10 -> 9 a fall of
\* exactly 10%
MarketCloses == {0, 9, 10, 11, 12}

\* The locals before the candle loop.  t and n are the time of the last
\* candle read (-1 before the first) and the number of candles read; hCloses
\* lists the closes of the retained candles, kept for the properties only.
analyzeMarketCondition_init(start, end) ==
    [start |-> start, end |-> end, first |-> R(0), last |-> R(0),
     t |-> 0 - 1, n |-> 0, hCloses |-> <<>>, done |-> FALSE]

\* lines 47-55: one iteration of the candle loop
analyzeMarketCondition_candle(m, time, close) ==
    LET read == [m EXCEPT !.t = time, !.n = @ + 1]
    IN  IF time < m.start \/ time > m.end
        THEN [m |-> read, retained |-> FALSE]
        ELSE [m |-> [read EXCEPT !.first = IF m.first = R(0) THEN R(close) ELSE @,
                                 !.last = R(close),
                                 !.hCloses = Append(@, close)],
              retained |-> TRUE]

\* lines 56-67: the classification, chg and the constant 0.1 being float64
analyzeMarketCondition_return(m) ==
    IF m.first = R(0) THEN "sideways"
    ELSE LET chg == FSub(FDiv(m.last, m.first), R(1))
         IN  IF RGt(chg, RoundF(Rat(1, 10))) THEN "bull"
             ELSE IF RLt(chg, RNeg(RoundF(Rat(1, 10)))) THEN "bear"
             ELSE "sideways"

-----------------------------------------------------------------------------
(* Engine.CompareStrategies (part_005) *)

\* A candle slice: at most MaxCandles candles, one per unit of time, closing
\* within the range of scenario A
CompareCloses == {40000, 43000}
Candle == [time : 0 .. MaxTime, close : CompareCloses]
CandleSlices ==
    UNION {{s \in [1 .. k -> Candle] : \A i \in 1 .. k - 1 : s[i + 1].time = s[i].time + 1} :
           k \in 0 .. MaxCandles}

\* part_004 lines 18-32 over the candles from index i on
RECURSIVE BacktestDCA_loop(_, _, _)
BacktestDCA_loop(b, candles, i) ==
    IF i > Len(candles) THEN [b EXCEPT !.done = TRUE]
    ELSE BacktestDCA_loop(BacktestDCA_candle(b, candles[i].time, candles[i].close).b,
                          candles, i + 1)

\* backtest/grid.go lines 26-60 over the candles from index i on: the locals
\* the runs can end with, one for each way range visits the positions
RECURSIVE BacktestGrid_loop(_, _, _)
BacktestGrid_loop(b, candles, i) ==
    IF i > Len(candles) THEN {[b EXCEPT !.done = TRUE]}
    ELSE LET t == BacktestGrid_trade(b, candles[i].time, candles[i].close)
             sums == IF t.retained THEN invQtySums(t.b.positions) ELSE {b.invQty}
         IN  UNION {BacktestGrid_loop(
                        BacktestGrid_candle(b, candles[i].time, candles[i].close, q).b,
                        candles, i + 1) : q \in sums}

\* part_005 lines 47-55 over the candles from index i on
RECURSIVE analyzeMarketCondition_loop(_, _, _)
analyzeMarketCondition_loop(m, candles, i) ==
    IF i > Len(candles) THEN [m EXCEPT !.done = TRUE]
    ELSE analyzeMarketCondition_loop(
             analyzeMarketCondition_candle(m, candles[i].time, candles[i].close).m,
             candles, i + 1)

\* What stands for the result of a call not made yet
NotCalled == [called |-> FALSE]

\* The arguments of one call and, once made, the comparison it returned and
\* what the calls of BacktestDCA, BacktestGrid and analyzeMarketCondition
\* made on their own with the same arguments returned.  hInvQtyCmp and
\* hInvQtyGrid are the float64 sums of the held quantities that the last
\* equity sample of the two BacktestGrid runs was computed from, kept for the
\* properties only.
CompareArgs(candles, start, end, initialBalance, feeRate, dcaCfg, gridCfg) ==
    [candles |-> candles, start |-> start, end |-> end,
     initialBalance |-> initialBalance, feeRate |-> feeRate,
     dcaCfg |-> dcaCfg, gridCfg |-> gridCfg,
     cmp |-> NotCalled, dca |-> NotCalled, grid |-> NotCalled, market |-> Nil,
     hInvQtyCmp |-> R(0), hInvQtyGrid |-> R(0)]

\* part_004 lines 9-40: the call of BacktestDCA with the arguments a
BacktestDCA_run(a) ==
    BacktestDCA_return(
        BacktestDCA_loop(
            BacktestDCA_init(a.dcaCfg, a.feeRate, a.start, a.end, a.initialBalance),
            a.candles, 1))

\* backtest/grid.go lines 10-63: the locals the call of BacktestGrid with
\* the arguments a can end with
BacktestGrid_runs(a) ==
    BacktestGrid_loop(
        BacktestGrid_init(a.gridCfg, a.feeRate, a.start, a.end, a.initialBalance),
        a.candles, 1)

\* part_005 lines 44-68: the call of analyzeMarketCondition
analyzeMarketCondition_run(a) ==
    analyzeMarketCondition_return(
        analyzeMarketCondition_loop(
            analyzeMarketCondition_init(a.start, a.end), a.candles, 1))

\* part_005 lines 37-42: the three calls in the order of the code, g being
\* the locals the BacktestGrid call ended with
CompareStrategies(a, g) ==
    [DCAResults |-> BacktestDCA_run(a),
     GridResults |-> BacktestGrid_return(g),
     Period |-> a.end - a.start,
     MarketType |-> analyzeMarketCondition_run(a)]

\* The calls compare the configuration of scenario B with the one of
\* scenario A on three levels
CompareDCAConfigs == {ScenarioB}
CompareGridConfigs == {[ScenarioA EXCEPT !.GridLevels = 3]}
CompareBalances == {1000}

-----------------------------------------------------------------------------
(* A bot process (cmd/grid-bot/main.go, part_000 lines 121-330): main, the *)
(* goroutine of runTradingLoop and one request of the monitoring server,   *)
(* over the lock of the strategy                                           *)

\* The configurations of the bots and the prices GetTicker reports
BotGridConfigs ==
    {c \in LiveGridConfigs : c.LowerPrice = 1 /\ c.UpperPrice = MaxBound
                             /\ c.GridLevels = 2 /\ c.InvestmentPerLevel = 1}
BotDCAConfigs ==
    {c \in LiveDCAConfigs : c.PriceThreshold = 0 /\ c.Interval = MaxInterval
                            /\ c.MaxInvestments = 1}
BotPrices == {1, MaxBound}

\* The control points of Execute between the call and the return: waiting
\* for mu.Lock, before the buy, between storing the bought order and
\* updateMetrics, before the sell, between storing the sold order and
\* updateMetrics, and before the deferred mu.Unlock
InExecute == {"lock", "buy", "buyMetrics", "sell", "sellMetrics", "unlock"}

\* The queries of the monitoring server and the lock each takes
Queries == {"GetStatus", "GetMetrics", "GetSignal"}

\* A mutation of QueryLock in which GetStatus reads without the lock
QueryLock_StatusUnlocked(q) == IF q = "GetStatus" THEN "none" ELSE "RLock"

\* grid.go lines 87, 172, 329 and dca.go lines 79, 149, 252
QueryLock(q) == "RLock"

NoOrder == [none |-> TRUE]

\* grid.go lines 260-281 and 288-309: the order is built, sent to the
\* exchange and, when accepted, stored in activeOrders; updateMetrics is
\* still to come
GridStrategy_storeOrder(g, side, level, ok) ==
    LET order == [ID |-> g.nextID, Symbol |-> g.config.Symbol, Side |-> side,
                  Type |-> "LIMIT", Quantity |-> calculateOrderQuantity(g, level),
                  Price |-> level]
    IN  IF ~ok
        THEN [s |-> g, order |-> NoOrder, err |-> "failed to place order"]
        ELSE [s |-> [g EXCEPT !.nextID = @ + 1,
                              !.exchange = Append(@, order),
                              !.activeOrders = (order.ID :> order) @@ @],
              order |-> order, err |-> Nil]

\* grid.go lines 47-83 from the control point pc to the next one, the lock
\* being held: the strategy, the control point, the order that waits for
\* updateMetrics and the error Execute is about to return
GridStrategy_Execute_step(g, pc, price, order, ok) ==
    LET near == findNearestLevels(g, price)
        done == [s |-> g, pc |-> "unlock", order |-> NoOrder, err |-> Nil]
    IN  IF pc = "buy"
        THEN IF ~g.config.Enabled THEN done
             ELSE IF RLt(price, R(g.config.LowerPrice)) \/ RGt(price, R(g.config.UpperPrice))
             THEN done
             ELSE IF RGt(near.buyLevel, R(0)) /\ shouldPlaceBuyOrder(g, near.buyLevel, price)
             THEN LET r == GridStrategy_storeOrder(g, "BUY", near.buyLevel, ok)
                  IN  [s |-> r.s, pc |-> IF r.err = Nil THEN "buyMetrics" ELSE "unlock",
                       order |-> r.order, err |-> r.err]
             ELSE [done EXCEPT !.pc = "sell"]
        ELSE IF pc = "buyMetrics"
        THEN [s |-> GridStrategy_updateMetrics(g, order, price), pc |-> "sell",
              order |-> NoOrder, err |-> Nil]
        ELSE IF pc = "sell"
        THEN IF RGt(near.sellLevel, R(0)) /\ shouldPlaceSellOrder(g, near.sellLevel, price)
             THEN LET r == GridStrategy_storeOrder(g, "SELL", near.sellLevel, ok)
                  IN  [s |-> r.s, pc |-> IF r.err = Nil THEN "sellMetrics" ELSE "unlock",
                       order |-> r.order, err |-> r.err]
             ELSE done
        ELSE [s |-> GridStrategy_updateMetrics(g, order, price), pc |-> "unlock",
              order |-> NoOrder, err |-> Nil]

\* dca.go lines 43-75 and 163-192 from the control point pc to the next one,
\* the lock being held
DCAStrategy_Execute_step(d, pc, price, order, clock, ok) ==
    LET done == [s |-> d, pc |-> "unlock", order |-> NoOrder, err |-> Nil]
        new == [Symbol |-> d.config.Symbol, Side |-> "BUY", Type |-> "MARKET",
                Quantity |-> calculateQuantity(d, price), Price |-> price]
    IN  IF pc = "buy"
        THEN IF ~d.config.Enabled THEN done
             ELSE IF Since(d.lastBuy, clock) < d.config.Interval THEN done
             ELSE IF d.buyCount >= d.config.MaxInvestments THEN done
             ELSE IF d.config.PriceThreshold > 0 /\ RGt(price, R(d.config.PriceThreshold))
             THEN done
             ELSE IF ~ok THEN [done EXCEPT !.err = "failed to place order"]
             ELSE [s |-> [d EXCEPT !.exchange = Append(@, new),
                                   !.lastBuy = clock,
                                   !.buyCount = @ + 1],
                   pc |-> "buyMetrics", order |-> new, err |-> Nil]
        ELSE [s |-> DCAStrategy_updateMetrics(d, order, price), pc |-> "unlock",
              order |-> NoOrder, err |-> Nil]

\* What a query returns when it reads the strategy s
GridStrategy_GetStatus(g) ==
    [enabled |-> g.config.Enabled, symbol |-> g.config.Symbol,
     grid_levels |-> Len(g.gridLevels),
     active_orders |-> Cardinality(DOMAIN g.activeOrders),
     lower_price |-> g.config.LowerPrice, upper_price |-> g.config.UpperPrice,
     investment_per_level |-> g.config.InvestmentPerLevel,
     total_trades |-> g.metrics.TotalTrades, total_volume |-> g.metrics.TotalVolume]

DCAStrategy_GetStatus(d) ==
    [enabled |-> d.config.Enabled, symbol |-> d.config.Symbol,
     buy_count |-> d.buyCount, max_buys |-> d.config.MaxInvestments,
     last_buy |-> d.lastBuy, next_buy |-> d.lastBuy + d.config.Interval,
     interval |-> d.config.Interval, investment_amount |-> d.config.InvestmentAmount]

QueryResult(kind, q, s, price, clock) ==
    IF q = "GetMetrics" THEN s.metrics
    ELSE IF q = "GetStatus"
    THEN (IF kind = "grid" THEN GridStrategy_GetStatus(s) ELSE DCAStrategy_GetStatus(s))
    ELSE [signal |-> IF kind = "grid" THEN GridStrategy_GetSignal(s, price)
                     ELSE DCAStrategy_GetSignal(s, price, clock)]

\* The process after main has started its goroutines (main.go lines 94-108).
\* tick: a tick waits in ticker.C; ctxDone: ctx of main is cancelled; main,
\* loop and query are the control points of main, of runTradingLoop and of
\* the request; price, order and err are locals of the tick being served;
\* hTickUsed tells whether the tick being served has led to an Execute,
\* hAfterShutdown whether that Execute was called after Shutdown had
\* returned, and hCommitted is the strategy as the last release of the write
\* lock left it, all three kept for the properties only.
NewBot(kind, s) ==
    [kind |-> kind, tick |-> FALSE, ctxDone |-> FALSE, exited |-> FALSE,
     main |-> "wait", loop |-> "select", query |-> "idle", q |-> "GetStatus",
     writer |-> FALSE, readers |-> 0,
     price |-> R(0), order |-> NoOrder, err |-> Nil,
     hTickUsed |-> FALSE, hAfterShutdown |-> FALSE, hCommitted |-> s]

-----------------------------------------------------------------------------
(* The DCAStrategy with base and safety orders (dca.go lines 267-339) and  *)
(* its risk gate (internal/portfolio/risk.go)                              *)

\* The limits and the dynamic parameters of a RiskManager; positionSizes is
\* the entry of the symbol of the strategy
RiskManagers ==
    [MaxDrawdown : {1}, MaxPositionSize : {1, 2}, DailyLossLimit : {1},
     currentDrawdown : {0, 1}, dailyPnL : {0 - 1, 0}, positionSizes : {0, 1}]

\* risk.go lines 15-33
CanTrade(r, orderSize, symbol) ==
    IF r.currentDrawdown >= r.MaxDrawdown THEN FALSE
    ELSE IF r.positionSizes + orderSize > r.MaxPositionSize THEN FALSE
    ELSE IF r.dailyPnL <= 0 - r.DailyLossLimit THEN FALSE
    ELSE TRUE

\* dca.go lines 276-295.  updated lists the orders handed to updatePosition
\* and placed the orders handed to portfolioManager.PlaceOrder.
NewSafetyDCA(r) ==
    [Symbol |-> "BTCUSDT", BaseOrderSize |-> 1, IsActive |-> FALSE,
     updated |-> <<>>, placed |-> <<>>, riskManager |-> r]

\* dca.go lines 319-339: ok is whether portfolioManager.PlaceOrder succeeds
initiateFirstOrder(d, price, ok) ==
    IF ~CanTrade(d.riskManager, d.BaseOrderSize, d.Symbol)
    THEN [d |-> d, err |-> "risk limits exceeded for initial order"]
    ELSE LET order == [Symbol |-> d.Symbol, Side |-> "BUY", Type |-> "MARKET",
                       Quantity |-> RDiv(R(d.BaseOrderSize), price), Price |-> price]
         IN  [d |-> [d EXCEPT !.updated = Append(@, order),
                              !.IsActive = TRUE,
                              !.placed = Append(@, order)],
              err |-> IF ok THEN Nil ELSE "failed to place order"]

-----------------------------------------------------------------------------
(* Initial states: one component per behaviour *)

\* The back-test window is [1, MaxTime - 1]; candle times range over
\* 0 .. MaxTime

ComboDCAConfigs ==
    {c \in LiveDCAConfigs : c.PriceThreshold = 0 /\ c.Interval = MaxInterval
                            /\ c.MaxInvestments = 1}
ComboGridConfigs ==
    {c \in LiveGridConfigs : c.LowerPrice = 1 /\ c.UpperPrice = MaxBound
                             /\ c.GridLevels = 2 /\ c.InvestmentPerLevel = 1}

Balances == {0, 3}

InitCfg ==
    /\ mode = "cfg"
    /\ cf \in [kind : {"grid"}, c : GridConfigs] \cup [kind : {"dca"}, c : DCAConfigs]
    /\ bg = Idle /\ bd = Idle /\ gs = Idle /\ ds = Idle /\ cs = Idle
    /\ pf = Idle /\ mk = Idle
    /\ cp = Idle
    /\ bot = Idle
    /\ rk = Idle

InitGrid ==
    /\ mode = "grid"
    /\ \E c \in LiveGridConfigs : gs = NewGridStrategy(c)
    /\ cf = Idle /\ bg = Idle /\ bd = Idle /\ ds = Idle /\ cs = Idle
    /\ pf = Idle /\ mk = Idle
    /\ cp = Idle
    /\ bot = Idle
    /\ rk = Idle

InitDCA ==
    /\ mode = "dca"
    /\ \E c \in LiveDCAConfigs : ds = NewDCAStrategy(c)
    /\ cf = Idle /\ bg = Idle /\ bd = Idle /\ gs = Idle /\ cs = Idle
    /\ pf = Idle /\ mk = Idle
    /\ cp = Idle
    /\ bot = Idle
    /\ rk = Idle

InitCombo ==
    /\ mode = "combo"
    /\ \E en \in BOOLEAN : cs = NewComboStrategy(en)
    /\ \E c \in ComboDCAConfigs : ds = NewDCAStrategy(c)
    /\ \E c \in ComboGridConfigs : gs = NewGridStrategy(c)
    /\ cf = Idle /\ bg = Idle /\ bd = Idle
    /\ pf = Idle /\ mk = Idle
    /\ cp = Idle
    /\ bot = Idle
    /\ rk = Idle

InitBacktestGrid ==
    /\ mode = "btgrid"
    /\ \E c \in BTGridConfigs, f \in FeeRates, bal \in Balances :
           bg = BacktestGrid_init(c, f, 1, MaxTime - 1, bal)
    /\ cf = Idle /\ bd = Idle /\ gs = Idle /\ ds = Idle /\ cs = Idle
    /\ pf = Idle /\ mk = Idle
    /\ cp = Idle
    /\ bot = Idle
    /\ rk = Idle

\* Scenario A
InitScenarioA ==
    /\ mode = "btgrid"
    /\ \E bal \in ScenarioABalances :
           bg = BacktestGrid_init(ScenarioA, R(0), 1, MaxTime - 1, bal)
    /\ cf = Idle /\ bd = Idle /\ gs = Idle /\ ds = Idle /\ cs = Idle
    /\ pf = Idle /\ mk = Idle
    /\ cp = Idle
    /\ bot = Idle
    /\ rk = Idle

\* BacktestGrid on the configuration with equal bounds
InitFlatGrid ==
    /\ mode = "btgrid"
    /\ \E f \in FeeRates : bg = BacktestGrid_init(FlatGrid, f, 1, MaxTime - 1, 3)
    /\ cf = Idle /\ bd = Idle /\ gs = Idle /\ ds = Idle /\ cs = Idle
    /\ pf = Idle /\ mk = Idle
    /\ cp = Idle
    /\ bot = Idle
    /\ rk = Idle

\* An equity curve handed to computePerformance
InitPerf ==
    /\ mode = "perf"
    /\ \E e \in Curves : pf = [equity |-> e, done |-> FALSE]
    /\ cf = Idle /\ bg = Idle /\ bd = Idle /\ gs = Idle /\ ds = Idle /\ cs = Idle
    /\ mk = Idle
    /\ cp = Idle
    /\ bot = Idle
    /\ rk = Idle

\* A call of analyzeMarketCondition
InitMarket ==
    /\ mode = "market"
    /\ mk = analyzeMarketCondition_init(1, MaxTime - 1)
    /\ cf = Idle /\ bg = Idle /\ bd = Idle /\ gs = Idle /\ ds = Idle /\ cs = Idle
    /\ pf = Idle
    /\ cp = Idle
    /\ bot = Idle
    /\ rk = Idle

\* Scenario B
InitScenarioB ==
    /\ mode = "btdca"
    /\ \E f \in FeeRates, bal \in ScenarioBBalances :
           bd = BacktestDCA_init(ScenarioB, f, 1, MaxTime - 1, bal)
    /\ cf = Idle /\ bg = Idle /\ gs = Idle /\ ds = Idle /\ cs = Idle
    /\ pf = Idle /\ mk = Idle
    /\ cp = Idle
    /\ bot = Idle
    /\ rk = Idle

InitBacktestDCA ==
    /\ mode = "btdca"
    /\ \E c \in BTDCAConfigs, f \in FeeRates, bal \in Balances :
           bd = BacktestDCA_init(c, f, 1, MaxTime - 1, bal)
    /\ cf = Idle /\ bg = Idle /\ gs = Idle /\ ds = Idle /\ cs = Idle
    /\ pf = Idle /\ mk = Idle
    /\ cp = Idle
    /\ bot = Idle
    /\ rk = Idle

\* A call of CompareStrategies and calls of the three functions on their own
InitCompare ==
    /\ mode = "compare"
    /\ \E candles \in CandleSlices, bal \in CompareBalances, f \in FeeRates,
          d \in CompareDCAConfigs, g \in CompareGridConfigs :
           cp = CompareArgs(candles, 1, MaxTime - 1, bal, f, d, g)
    /\ cf = Idle /\ bg = Idle /\ bd = Idle /\ gs = Idle /\ ds = Idle /\ cs = Idle
    /\ pf = Idle /\ mk = Idle
    /\ bot = Idle
    /\ rk = Idle

\* A grid bot or a DCA bot, running
InitBot ==
    /\ mode = "bot"
    /\ \/ /\ \E c \in BotGridConfigs :
                gs = NewGridStrategy(c) /\ bot = NewBot("grid", NewGridStrategy(c))
          /\ ds = Idle
       \/ /\ \E c \in BotDCAConfigs :
                ds = NewDCAStrategy(c) /\ bot = NewBot("dca", NewDCAStrategy(c))
          /\ gs = Idle
    /\ cf = Idle /\ bg = Idle /\ bd = Idle /\ cs = Idle
    /\ pf = Idle /\ mk = Idle
    /\ cp = Idle
    /\ rk = Idle

\* A strategy that has not placed its first order, with its risk manager
InitRisk ==
    /\ mode = "risk"
    /\ \E r \in RiskManagers : rk = NewSafetyDCA(r)
    /\ cf = Idle /\ bg = Idle /\ bd = Idle /\ gs = Idle /\ ds = Idle /\ cs = Idle
    /\ pf = Idle /\ mk = Idle
    /\ cp = Idle
    /\ bot = Idle

Init ==
    /\ now = 0
    /\ last = [op |-> "init"]
    /\ \/ InitCfg
       \/ InitGrid
       \/ InitDCA
       \/ InitCombo
       \/ InitBacktestGrid
       \/ InitScenarioA
       \/ InitFlatGrid
       \/ InitBacktestDCA
       \/ InitScenarioB
       \/ InitPerf
       \/ InitMarket
       \/ InitCompare
       \/ InitBot
       \/ InitRisk

-----------------------------------------------------------------------------
(* Steps *)

\* GridStrategy.ValidateConfig on a strategy built from cf.c (NewGridStrategy
\* cannot build one with negative GridLevels: make panics)
GridValidateConfig ==
    /\ mode = "cfg" /\ cf.kind = "grid" /\ cf.c.GridLevels >= 0
    /\ last' = [op |-> "GridStrategy.ValidateConfig", err |-> GridStrategy_ValidateConfig(cf.c)]
    /\ UNCHANGED <<mode, now, cf, bg, bd, gs, ds, cs, pf, mk, cp, bot, rk>>

FactoryValidateGridConfig ==
    /\ mode = "cfg" /\ cf.kind = "grid"
    /\ last' = [op |-> "Factory.validateGridConfig", err |-> validateGridConfig(cf.c)]
    /\ UNCHANGED <<mode, now, cf, bg, bd, gs, ds, cs, pf, mk, cp, bot, rk>>

DCAValidateConfig ==
    /\ mode = "cfg" /\ cf.kind = "dca"
    /\ last' = [op |-> "DCAStrategy.ValidateConfig", err |-> DCAStrategy_ValidateConfig(cf.c)]
    /\ UNCHANGED <<mode, now, cf, bg, bd, gs, ds, cs, pf, mk, cp, bot, rk>>

\* DCAStrategy.validateConfig, the check UpdateConfig applies to its argument
DCAValidateConfigArg ==
    /\ mode = "cfg" /\ cf.kind = "dca"
    /\ last' = [op |-> "DCAStrategy.validateConfig", err |-> validateConfig(cf.c)]
    /\ UNCHANGED <<mode, now, cf, bg, bd, gs, ds, cs, pf, mk, cp, bot, rk>>

FactoryValidateDCAConfig ==
    /\ mode = "cfg" /\ cf.kind = "dca"
    /\ last' = [op |-> "Factory.validateDCAConfig", err |-> validateDCAConfig(cf.c)]
    /\ UNCHANGED <<mode, now, cf, bg, bd, gs, ds, cs, pf, mk, cp, bot, rk>>

\* NewGridStrategy building the levels of cf.c
CalculateGridLevels ==
    /\ mode = "cfg" /\ cf.kind = "grid" /\ cf.c.GridLevels >= 0
    /\ last' = [op |-> "calculateGridLevels", levels |-> calculateGridLevels(cf.c)]
    /\ UNCHANGED <<mode, now, cf, bg, bd, gs, ds, cs, pf, mk, cp, bot, rk>>

\* BacktestGrid building the levels of cf.c
BacktestGridLevels ==
    /\ mode = "cfg" /\ cf.kind = "grid" /\ ~(cf.c.GridLevels < 2)
    /\ last' = [op |-> "BacktestGrid.levels", levels |-> BacktestGrid_levels(cf.c)]
    /\ UNCHANGED <<mode, now, cf, bg, bd, gs, ds, cs, pf, mk, cp, bot, rk>>

\* The clock of the live strategies advances
Tick ==
    /\ mode \in {"dca", "combo"} /\ now < MaxTime
    /\ now' = now + 1
    /\ last' = [op |-> "tick"]
    /\ UNCHANGED <<mode, cf, bg, bd, gs, ds, cs, pf, mk, cp, bot, rk>>

GridExecute ==
    /\ mode = "grid"
    /\ \E p \in Prices, okBuy \in BOOLEAN, okSell \in BOOLEAN :
         LET r == GridStrategy_Execute(gs, R(p), okBuy, okSell)
         IN  /\ gs' = r.g
             /\ last' = [op |-> "GridStrategy.Execute", price |-> p, err |-> r.err]
    /\ UNCHANGED <<mode, now, cf, bg, bd, ds, cs, pf, mk, cp, bot, rk>>

\* A call of findNearestLevels, as the tests make it, at a whole or half price
GridFindNearestLevels ==
    /\ mode = "grid"
    /\ \E p \in HalfPrices :
         LET near == findNearestLevels(gs, p)
         IN  last' = [op |-> "GridStrategy.findNearestLevels", price |-> p,
                      buyLevel |-> near.buyLevel, sellLevel |-> near.sellLevel]
    /\ UNCHANGED <<mode, now, cf, bg, bd, gs, ds, cs, pf, mk, cp, bot, rk>>

GridGetSignal ==
    /\ mode = "grid"
    /\ \E p \in Prices :
         last' = [op |-> "GridStrategy.GetSignal", price |-> p,
                  signal |-> GridStrategy_GetSignal(gs, R(p))]
    /\ UNCHANGED <<mode, now, cf, bg, bd, gs, ds, cs, pf, mk, cp, bot, rk>>

DCAExecute ==
    /\ mode = "dca"
    /\ \E p \in LivePrices, ok \in BOOLEAN :
         LET r == DCAStrategy_Execute(ds, R(p), now, ok)
         IN  /\ ds' = r.d
             /\ last' = [op |-> "DCAStrategy.Execute", price |-> p, err |-> r.err,
                         bought |-> Len(r.d.exchange) > Len(ds.exchange),
                         prevBuy |-> ds.lastBuy]
    /\ UNCHANGED <<mode, now, cf, bg, bd, gs, cs, pf, mk, cp, bot, rk>>

DCAGetSignal ==
    /\ mode = "dca"
    /\ \E p \in LivePrices :
         last' = [op |-> "DCAStrategy.GetSignal", price |-> p,
                  signal |-> DCAStrategy_GetSignal(ds, R(p), now)]
    /\ UNCHANGED <<mode, now, cf, bg, bd, gs, ds, cs, pf, mk, cp, bot, rk>>

DCAUpdateConfig ==
    /\ mode = "dca"
    /\ \E c \in UpdateConfigArgs :
         LET r == DCAStrategy_UpdateConfig(ds, c)
         IN  /\ ds' = r.d
             /\ last' = [op |-> "DCAStrategy.UpdateConfig", arg |-> c, err |-> r.err]
    /\ UNCHANGED <<mode, now, cf, bg, bd, gs, cs, pf, mk, cp, bot, rk>>

ComboExecute ==
    /\ mode = "combo"
    /\ \E p \in LivePrices, okDca \in BOOLEAN, okGrid \in BOOLEAN :
         LET r == ComboStrategy_Execute(cs, ds, gs, R(p), now, okDca, okGrid, okGrid)
         IN  /\ cs' = r.c /\ ds' = r.d /\ gs' = r.g
             /\ last' = [op |-> "ComboStrategy.Execute", price |-> p, err |-> r.err]
    /\ UNCHANGED <<mode, now, cf, bg, bd, pf, mk, cp, bot, rk>>

ComboGetSignal ==
    /\ mode = "combo"
    /\ \E p \in LivePrices :
         last' = [op |-> "ComboStrategy.GetSignal", price |-> p,
                  signal |-> ComboStrategy_GetSignal(cs, ds, gs, R(p), now)]
    /\ UNCHANGED <<mode, now, cf, bg, bd, gs, ds, cs, pf, mk, cp, bot, rk>>

\* The closes fed to a backtest of configuration c
ClosesFor(c) ==
    IF c = ScenarioA THEN ScenarioACloses
    ELSE IF c = ScenarioB THEN ScenarioBCloses
    ELSE IF c \in BTDCAConfigs THEN LivePrices
    ELSE Prices

\* BacktestGrid reads the next candle of an series with ascending times
BacktestGridCandle ==
    /\ mode = "btgrid" /\ ~bg.done /\ bg.n < MaxCandles
    /\ \E time \in (bg.t + 1) .. MaxTime, close \in ClosesFor(bg.cfg) :
         \E invQty \in IF BacktestGrid_trade(bg, time, close).retained
                        THEN invQtySums(BacktestGrid_trade(bg, time, close).b.positions)
                        ELSE {bg.invQty} :
         LET r == BacktestGrid_candle(bg, time, close, invQty)
         IN  /\ bg' = r.b
             /\ last' = [op |-> "BacktestGrid.candle", time |-> time, close |-> close,
                         retained |-> r.retained, buys |-> r.buys, sells |-> r.sells]
    /\ UNCHANGED <<mode, now, cf, bd, gs, ds, cs, pf, mk, cp, bot, rk>>

\* BacktestDCA reads the next candle of an series with ascending times
BacktestDCACandle ==
    /\ mode = "btdca" /\ ~bd.done /\ bd.n < MaxCandles
    /\ \E time \in (bd.t + 1) .. MaxTime, close \in ClosesFor(bd.cfg) :
         LET r == BacktestDCA_candle(bd, time, close)
         IN  /\ bd' = r.b
             /\ last' = [op |-> "BacktestDCA.candle", time |-> time, close |-> close,
                         retained |-> r.retained, bought |-> r.bought,
                         prevBuy |-> bd.hLastBuy]
    /\ UNCHANGED <<mode, now, cf, bg, gs, ds, cs, pf, mk, cp, bot, rk>>

\* BacktestGrid leaves the candle loop and returns
BacktestGridReturn ==
    /\ mode = "btgrid" /\ ~bg.done
    /\ bg' = [bg EXCEPT !.done = TRUE]
    /\ last' = [op |-> "BacktestGrid.return", result |-> BacktestGrid_return(bg)]
    /\ UNCHANGED <<mode, now, cf, bd, gs, ds, cs, pf, mk, cp, bot, rk>>

\* BacktestDCA leaves the candle loop and returns
BacktestDCAReturn ==
    /\ mode = "btdca" /\ ~bd.done
    /\ bd' = [bd EXCEPT !.done = TRUE]
    /\ last' = [op |-> "BacktestDCA.return", result |-> BacktestDCA_return(bd)]
    /\ UNCHANGED <<mode, now, cf, bg, gs, ds, cs, pf, mk, cp, bot, rk>>

\* computePerformance is called on the curve
ComputePerformance ==
    /\ mode = "perf" /\ ~pf.done
    /\ \E period \in Periods, trades \in TradeCounts, fees \in FeeTotals :
         \E wins \in 0 .. trades :
           last' = [op |-> "computePerformance", period |-> period,
                    trades |-> trades, wins |-> wins, totalFees |-> fees,
                    result |-> computePerformance(pf.equity, period, trades, wins, fees)]
    /\ pf' = [pf EXCEPT !.done = TRUE]
    /\ UNCHANGED <<mode, now, cf, bg, bd, gs, ds, cs, mk, cp, bot, rk>>

\* analyzeMarketCondition reads the next candle of a series with ascending
\* times
MarketCandle ==
    /\ mode = "market" /\ ~mk.done /\ mk.n < MaxCandles
    /\ \E time \in (mk.t + 1) .. MaxTime, close \in MarketCloses :
         LET r == analyzeMarketCondition_candle(mk, time, close)
         IN  /\ mk' = r.m
             /\ last' = [op |-> "analyzeMarketCondition.candle", time |-> time,
                         close |-> close, retained |-> r.retained]
    /\ UNCHANGED <<mode, now, cf, bg, bd, gs, ds, cs, pf, cp, bot, rk>>

\* analyzeMarketCondition leaves the candle loop and returns
MarketReturn ==
    /\ mode = "market" /\ ~mk.done
    /\ mk' = [mk EXCEPT !.done = TRUE]
    /\ last' = [op |-> "analyzeMarketCondition.return",
                result |-> analyzeMarketCondition_return(mk)]
    /\ UNCHANGED <<mode, now, cf, bg, bd, gs, ds, cs, pf, cp, bot, rk>>

\* Engine.CompareStrategies is called
CompareStrategiesCall ==
    /\ mode = "compare" /\ cp.cmp = NotCalled
    /\ \E g \in BacktestGrid_runs(cp) :
         /\ cp' = [cp EXCEPT !.cmp = CompareStrategies(cp, g), !.hInvQtyCmp = g.invQty]
         /\ last' = [op |-> "CompareStrategies", result |-> CompareStrategies(cp, g)]
    /\ UNCHANGED <<mode, now, cf, bg, bd, gs, ds, cs, pf, mk, bot, rk>>

\* Engine.BacktestDCA is called on its own with the same arguments
BacktestDCACall ==
    /\ mode = "compare" /\ cp.dca = NotCalled
    /\ cp' = [cp EXCEPT !.dca = BacktestDCA_run(cp)]
    /\ last' = [op |-> "BacktestDCA", result |-> BacktestDCA_run(cp)]
    /\ UNCHANGED <<mode, now, cf, bg, bd, gs, ds, cs, pf, mk, bot, rk>>

\* Engine.BacktestGrid is called on its own with the same arguments
BacktestGridCall ==
    /\ mode = "compare" /\ cp.grid = NotCalled
    /\ \E g \in BacktestGrid_runs(cp) :
         /\ cp' = [cp EXCEPT !.grid = BacktestGrid_return(g), !.hInvQtyGrid = g.invQty]
         /\ last' = [op |-> "BacktestGrid", result |-> BacktestGrid_return(g)]
    /\ UNCHANGED <<mode, now, cf, bg, bd, gs, ds, cs, pf, mk, bot, rk>>

\* analyzeMarketCondition is called on its own with the same arguments
AnalyzeMarketConditionCall ==
    /\ mode = "compare" /\ cp.market = Nil
    /\ cp' = [cp EXCEPT !.market = analyzeMarketCondition_run(cp)]
    /\ last' = [op |-> "analyzeMarketCondition", result |-> analyzeMarketCondition_run(cp)]
    /\ UNCHANGED <<mode, now, cf, bg, bd, gs, ds, cs, pf, mk, bot, rk>>

\* The strategy of the bot
Strat == IF bot.kind = "grid" THEN gs ELSE ds

SetStrat(s) ==
    IF bot.kind = "grid" THEN gs' = s /\ ds' = ds ELSE ds' = s /\ gs' = gs

Running == mode = "bot" /\ ~bot.exited

\* main.go line 127: the ticker puts a tick in its channel, unless one waits
\* there or runTradingLoop has stopped it
TickerFires ==
    /\ Running /\ bot.loop # "returned" /\ ~bot.tick
    /\ bot' = [bot EXCEPT !.tick = TRUE]
    /\ last' = [op |-> "ticker"]
    /\ UNCHANGED <<mode, now, cf, bg, bd, gs, ds, cs, pf, mk, cp, rk>>

\* main.go lines 133 and 137: select takes the tick
LoopSelectTick ==
    /\ Running /\ bot.loop = "select" /\ bot.tick
    /\ bot' = [bot EXCEPT !.tick = FALSE, !.loop = "fetch", !.hTickUsed = FALSE]
    /\ last' = [op |-> "select.tick"]
    /\ UNCHANGED <<mode, now, cf, bg, bd, gs, ds, cs, pf, mk, cp, rk>>

\* main.go lines 133-136: select takes ctx.Done and the loop returns
LoopSelectDone ==
    /\ Running /\ bot.loop = "select" /\ bot.ctxDone
    /\ bot' = [bot EXCEPT !.loop = "returned"]
    /\ last' = [op |-> "select.done"]
    /\ UNCHANGED <<mode, now, cf, bg, bd, gs, ds, cs, pf, mk, cp, rk>>

\* main.go lines 139-146: getMarketData fails and the tick is over, or it
\* gives the price and Execute is called
LoopFetch ==
    /\ Running /\ bot.loop = "fetch"
    /\ \/ /\ bot' = [bot EXCEPT !.loop = "select"]
          /\ last' = [op |-> "getMarketData", err |-> "failed"]
       \/ \E p \in BotPrices :
            /\ bot' = [bot EXCEPT !.loop = "lock", !.price = R(p), !.hTickUsed = TRUE,
                                  !.hAfterShutdown = bot.main \in {"return", "returned"}]
            /\ last' = [op |-> "getMarketData", err |-> Nil]
    /\ UNCHANGED <<mode, now, cf, bg, bd, gs, ds, cs, pf, mk, cp, rk>>

\* grid.go line 48, dca.go line 44: mu.Lock() returns
ExecuteLock ==
    /\ Running /\ bot.loop = "lock" /\ ~bot.writer /\ bot.readers = 0
    /\ bot' = [bot EXCEPT !.writer = TRUE, !.loop = "buy"]
    /\ last' = [op |-> "Execute.lock"]
    /\ UNCHANGED <<mode, now, cf, bg, bd, gs, ds, cs, pf, mk, cp, rk>>

\* Execute goes from one control point to the next
ExecuteStep ==
    /\ Running /\ bot.loop \in {"buy", "buyMetrics", "sell", "sellMetrics"}
    /\ \E ok \in BOOLEAN :
         LET r == IF bot.kind = "grid"
                  THEN GridStrategy_Execute_step(gs, bot.loop, bot.price, bot.order, ok)
                  ELSE DCAStrategy_Execute_step(ds, bot.loop, bot.price, bot.order, now, ok)
         IN  /\ SetStrat(r.s)
             /\ bot' = [bot EXCEPT !.loop = r.pc, !.order = r.order, !.err = r.err]
    /\ last' = [op |-> "Execute.step"]
    /\ UNCHANGED <<mode, now, cf, bg, bd, cs, pf, mk, cp, rk>>

\* grid.go line 49, dca.go line 45: the deferred mu.Unlock(), and Execute
\* returns (main.go lines 146-148)
ExecuteUnlock ==
    /\ Running /\ bot.loop = "unlock"
    /\ bot' = [bot EXCEPT !.writer = FALSE, !.loop = "logMetrics", !.err = Nil,
                          !.price = R(0), !.hCommitted = Strat]
    /\ last' = [op |-> "Execute.return", err |-> bot.err]
    /\ UNCHANGED <<mode, now, cf, bg, bd, gs, ds, cs, pf, mk, cp, rk>>

\* main.go lines 151-152: the loop reads the metrics under the read lock
LoopGetMetrics ==
    /\ Running /\ bot.loop = "logMetrics" /\ ~bot.writer
    /\ bot' = [bot EXCEPT !.loop = "select"]
    /\ last' = [op |-> "loop.GetMetrics", result |-> Strat.metrics]
    /\ UNCHANGED <<mode, now, cf, bg, bd, gs, ds, cs, pf, mk, cp, rk>>

\* main.go lines 284-299: a request calls a query, which takes its lock
QueryRLock ==
    /\ Running /\ bot.query = "idle"
    /\ \E q \in Queries :
         /\ QueryLock(q) = "RLock" => ~bot.writer
         /\ bot' = [bot EXCEPT !.query = "reading", !.q = q,
                               !.readers = IF QueryLock(q) = "RLock" THEN @ + 1 ELSE @]
    /\ last' = [op |-> "query.lock"]
    /\ UNCHANGED <<mode, now, cf, bg, bd, gs, ds, cs, pf, mk, cp, rk>>

\* The query reads the strategy, releases its lock and returns
QueryReturn ==
    /\ Running /\ bot.query = "reading"
    /\ \E p \in IF bot.q = "GetSignal" THEN BotPrices ELSE {1} :
         last' = [op |-> bot.q, price |-> p,
                  result |-> QueryResult(bot.kind, bot.q, Strat, R(p), now)]
    /\ bot' = [bot EXCEPT !.query = "idle",
                          !.readers = IF QueryLock(bot.q) = "RLock" THEN @ - 1 ELSE @]
    /\ UNCHANGED <<mode, now, cf, bg, bd, gs, ds, cs, pf, mk, cp, rk>>

\* main.go lines 111-112: the termination signal is received
MainSignal ==
    /\ Running /\ bot.main = "wait"
    /\ bot' = [bot EXCEPT !.main = "shutdown"]
    /\ last' = [op |-> "signal"]
    /\ UNCHANGED <<mode, now, cf, bg, bd, gs, ds, cs, pf, mk, cp, rk>>

\* main.go lines 115-120: strategy.Shutdown cancels the context of the
\* strategy, which nothing waits for, and (grid.go lines 183-187) ranges over
\* activeOrders without the lock.  While Execute is about to write that map
\* the runtime may stop the process with "concurrent map iteration and map
\* write".
MainShutdown ==
    /\ Running /\ bot.main = "shutdown"
    /\ \E fatal \in IF bot.kind = "grid" /\ bot.loop \in {"buy", "sell"}
                     THEN BOOLEAN ELSE {FALSE} :
         bot' = [bot EXCEPT !.main = "return", !.exited = fatal]
    /\ last' = [op |-> "Shutdown"]
    /\ UNCHANGED <<mode, now, cf, bg, bd, gs, ds, cs, pf, mk, cp, rk>>

\* main.go lines 69, 116 and 123: main returns, its deferred calls cancel ctx
MainReturn ==
    /\ Running /\ bot.main = "return"
    /\ bot' = [bot EXCEPT !.main = "returned", !.ctxDone = TRUE]
    /\ last' = [op |-> "main.return"]
    /\ UNCHANGED <<mode, now, cf, bg, bd, gs, ds, cs, pf, mk, cp, rk>>

\* The process exits once main has returned, whatever the goroutines do
ProcessExit ==
    /\ Running /\ bot.main = "returned"
    /\ bot' = [bot EXCEPT !.exited = TRUE]
    /\ last' = [op |-> "exit"]
    /\ UNCHANGED <<mode, now, cf, bg, bd, gs, ds, cs, pf, mk, cp, rk>>

\* dca.go lines 298-302: Execute of a strategy that is not active
SafetyDCAExecute ==
    /\ mode = "risk" /\ ~rk.IsActive
    /\ \E p \in LivePrices, ok \in BOOLEAN :
         LET r == initiateFirstOrder(rk, R(p), ok)
         IN  /\ rk' = r.d
             /\ last' = [op |-> "DCAStrategy.initiateFirstOrder", price |-> p,
                         canTrade |-> CanTrade(rk.riskManager, rk.BaseOrderSize, rk.Symbol),
                         err |-> r.err]
    /\ UNCHANGED <<mode, now, cf, bg, bd, gs, ds, cs, pf, mk, cp, bot>>

Next ==
    \/ GridValidateConfig
    \/ FactoryValidateGridConfig
    \/ DCAValidateConfig
    \/ DCAValidateConfigArg
    \/ FactoryValidateDCAConfig
    \/ CalculateGridLevels
    \/ BacktestGridLevels
    \/ Tick
    \/ GridExecute
    \/ GridGetSignal
    \/ GridFindNearestLevels
    \/ DCAExecute
    \/ DCAGetSignal
    \/ DCAUpdateConfig
    \/ ComboExecute
    \/ ComboGetSignal
    \/ BacktestGridCandle
    \/ BacktestDCACandle
    \/ BacktestGridReturn
    \/ BacktestDCAReturn
    \/ ComputePerformance
    \/ MarketCandle
    \/ MarketReturn
    \/ CompareStrategiesCall
    \/ BacktestDCACall
    \/ BacktestGridCall
    \/ AnalyzeMarketConditionCall
    \/ TickerFires
    \/ LoopSelectTick
    \/ LoopSelectDone
    \/ LoopFetch
    \/ ExecuteLock
    \/ ExecuteStep
    \/ ExecuteUnlock
    \/ LoopGetMetrics
    \/ QueryRLock
    \/ QueryReturn
    \/ MainSignal
    \/ MainShutdown
    \/ MainReturn
    \/ ProcessExit
    \/ SafetyDCAExecute

Spec == Init /\ [][Next]_vars

-----------------------------------------------------------------------------
(* Properties *)

InRange(c, p) == p >= c.LowerPrice /\ p <= c.UpperPrice

\* The orders the last step added to the exchange of the grid strategy
NewGridOrders == {gs'.exchange[k] : k \in (Len(gs.exchange) + 1) .. Len(gs'.exchange)}

(* C1  No double buy.  BacktestGrid: every level a candle step buys was     *)
(* empty (quantity 0) when the step began, so a level holding a position is *)
(* not bought again until a sell has emptied it.  Live GridStrategy: every  *)
(* buy order a step places is at a level price for which no buy order was   *)
(* active when the step began.                                              *)
C1_BacktestStep ==
    (mode = "btgrid" /\ last'.op = "BacktestGrid.candle")
        => \A i \in last'.buys : REq(bg.positions[i].qty, R(0))
C1_LiveStep ==
    (mode \in {"grid", "combo"})
        => \A o \in NewGridOrders :
              o.Side = "BUY"
                  => ~\E id \in DOMAIN gs.activeOrders :
                         /\ gs.activeOrders[id].Side = "BUY"
                         /\ REq(gs.activeOrders[id].Price, o.Price)
C1_NoDoubleBuy == [][C1_BacktestStep /\ C1_LiveStep]_vars

\* A filled level whose buy condition held again (price at or below the
\* level, cash for one more investment) and which the step left alone
C1_Witness ==
    /\ mode = "btgrid" /\ last.op = "BacktestGrid.candle" /\ last.retained
    /\ \E i \in DOMAIN bg.positions :
          /\ RGt(bg.positions[i].qty, R(0))
          /\ RLt(R(last.close), bg.positions[i].avg)
          /\ RLe(R(last.close), bg.levels[i])
          /\ i \notin last.buys
          /\ RGe(bg.cash, R(bg.cfg.InvestmentPerLevel))

(* C2  DCA buyCount.  Live: buyCount never decreases, grows by one at a     *)
(* time and only from below MaxInvestments, and an Execute at or above      *)
(* MaxInvestments returns nil and changes nothing (no order, no state).     *)
(* BacktestDCA: trades never decreases, never exceeds MaxInvestments, and a *)
(* candle step at MaxInvestments leaves cash, quantity, fees, trades and    *)
(* nextBuy unchanged.                                                       *)
C2_LiveStep ==
    (mode \in {"dca", "combo"})
        => /\ ds'.buyCount >= ds.buyCount
           /\ ds'.buyCount > ds.buyCount
                 => /\ ds.buyCount < ds.config.MaxInvestments
                    /\ ds'.buyCount = ds.buyCount + 1
                    /\ ds'.buyCount <= ds'.config.MaxInvestments
           /\ (last'.op = "DCAStrategy.Execute" /\ ds.buyCount >= ds.config.MaxInvestments)
                 => ds' = ds /\ last'.err = Nil
C2_BacktestStep ==
    (mode = "btdca")
        => /\ bd'.trades >= bd.trades
           /\ bd'.trades <= bd'.cfg.MaxInvestments
           /\ bd.trades = bd.cfg.MaxInvestments
                 => /\ bd'.trades = bd.trades /\ bd'.cash = bd.cash /\ bd'.qty = bd.qty
                    /\ bd'.totalFees = bd.totalFees /\ bd'.nextBuy = bd.nextBuy
                    /\ last'.op = "BacktestDCA.candle" => ~last'.bought
C2_BuyCountBounded == [][C2_LiveStep /\ C2_BacktestStep]_vars

\* An Execute that only the MaxInvestments rule stopped
C2_Witness ==
    /\ mode = "dca" /\ last.op = "DCAStrategy.Execute" /\ last.err = Nil
    /\ ds.config.Enabled
    /\ ds.buyCount = ds.config.MaxInvestments
    /\ Since(ds.lastBuy, now) >= ds.config.Interval
    /\ ~(ds.config.PriceThreshold > 0 /\ last.price > ds.config.PriceThreshold)

(* C3  For GridLevels >= 2 and UpperPrice > LowerPrice the levels built by  *)
(* calculateGridLevels and by BacktestGrid are GridLevels many, strictly    *)
(* ascending with equal spacing (upper - lower)/(GridLevels - 1), the first *)
(* is LowerPrice and the last is UpperPrice.                                *)
LevelsAsSpecified(c, levels) ==
    /\ Len(levels) = c.GridLevels
    /\ levels[1] = R(c.LowerPrice)
    /\ levels[Len(levels)] = R(c.UpperPrice)
    /\ \A i \in 1 .. Len(levels) - 1 :
          /\ RLt(levels[i], levels[i + 1])
          /\ RSub(levels[i + 1], levels[i])
                = Rat(c.UpperPrice - c.LowerPrice, c.GridLevels - 1)
GridConfigValid(c) ==
    /\ c.Symbol # ""
    /\ c.UpperPrice > c.LowerPrice
    /\ c.GridLevels >= 2
    /\ c.InvestmentPerLevel > 0
C4_GridConfigValidated ==
    (mode = "cfg" /\ last.op \in {"GridStrategy.ValidateConfig", "Factory.validateGridConfig"})
        => (last.err = Nil <=> GridConfigValid(cf.c))

(* C5  GridStrategy.Execute with a price below LowerPrice or above          *)
(* UpperPrice returns nil and leaves the strategy (activeOrders, metrics)   *)
(* and the exchange's orders unchanged.                                     *)
C5_Step ==
    (mode = "grid" /\ last'.op = "GridStrategy.Execute"
        /\ ~InRange(gs.config, last'.price))
        => /\ last'.err = Nil
           /\ gs'.exchange = gs.exchange
           /\ gs'.activeOrders = gs.activeOrders
           /\ gs'.metrics = gs.metrics
C5_OutOfRangeNoOp == [][C5_Step]_vars

\* An enabled strategy with an active order, executed out of range
C5_Witness ==
    /\ mode = "grid" /\ last.op = "GridStrategy.Execute"
    /\ gs.config.Enabled
    /\ ~InRange(gs.config, last.price)
    /\ gs.exchange # <<>>

(* C6  In BacktestGrid a retained candle whose close is outside             *)
(* [LowerPrice, UpperPrice] buys nothing and sells nothing: positions,      *)
(* cash, trades, wins and total fees are unchanged by the step.             *)
C6_Step ==
    (mode = "btgrid" /\ last'.op = "BacktestGrid.candle" /\ last'.retained
        /\ ~InRange(bg.cfg, last'.close))
        => /\ last'.buys = {} /\ last'.sells = {}
           /\ bg'.positions = bg.positions
           /\ bg'.cash = bg.cash
           /\ bg'.trades = bg.trades
           /\ bg'.wins = bg.wins
           /\ bg'.totalFees = bg.totalFees
C6_BacktestOutOfRangeNoOp == [][C6_Step]_vars

(* C7  Two consecutive DCA buys are at least Interval apart, in live        *)
(* DCAStrategy.Execute and in BacktestDCA over candles of ascending times.  *)
C7_IntervalBetweenBuys ==
    /\ (mode = "dca" /\ last.op = "DCAStrategy.Execute" /\ last.bought)
          => now - last.prevBuy >= ds.config.Interval
    /\ (mode = "btdca" /\ last.op = "BacktestDCA.candle" /\ last.bought
          /\ last.prevBuy # NoBuy)
          => last.time - last.prevBuy >= bd.cfg.Interval

(* C8  A DCA step does not buy when PriceThreshold > 0 and the price is     *)
(* above PriceThreshold, in live DCAStrategy.Execute and in every candle    *)
(* step of BacktestDCA.                                                     *)
C8_ThresholdRespected ==
    /\ (mode = "dca" /\ last.op = "DCAStrategy.Execute" /\ last.bought)
          => ~(ds.config.PriceThreshold > 0 /\ last.price > ds.config.PriceThreshold)
    /\ (mode = "btdca" /\ last.op = "BacktestDCA.candle" /\ last.bought)
          => ~(bd.cfg.PriceThreshold > 0 /\ last.close > bd.cfg.PriceThreshold)

(* C9  With Enabled = false, Execute of DCAStrategy, GridStrategy and       *)
(* ComboStrategy returns nil and leaves the strategy, its children and the  *)
(* exchange unchanged; GetSignal of a disabled Grid or Combo strategy is    *)
(* Hold.                                                                    *)
C9_Step ==
    /\ (mode = "dca" /\ last'.op = "DCAStrategy.Execute" /\ ~ds.config.Enabled)
          => ds' = ds /\ last'.err = Nil
    /\ (mode = "grid" /\ last'.op = "GridStrategy.Execute" /\ ~gs.config.Enabled)
          => gs' = gs /\ last'.err = Nil
    /\ (mode = "combo" /\ last'.op = "ComboStrategy.Execute" /\ ~cs.config.Enabled)
          => cs' = cs /\ ds' = ds /\ gs' = gs /\ last'.err = Nil
    /\ (mode = "grid" /\ last'.op = "GridStrategy.GetSignal" /\ ~gs.config.Enabled)
          => last'.signal = "HOLD"
    /\ (mode = "combo" /\ last'.op = "ComboStrategy.GetSignal" /\ ~cs.config.Enabled)
          => last'.signal = "HOLD"
C9_DisabledNoOp == [][C9_Step]_vars

\* A disabled combo executed over an enabled DCA child that is due to buy
C9_Witness ==
    /\ mode = "combo" /\ last.op = "ComboStrategy.Execute"
    /\ ~cs.config.Enabled
    /\ ds.config.Enabled /\ ds.buyCount = 0
    /\ gs.config.Enabled /\ InRange(gs.config, last.price)

(* C10  ValidateConfig, Factory.validateDCAConfig and UpdateConfig accept a *)
(* DCA configuration iff symbol is non-empty, InvestmentAmount > 0,         *)
(* Interval > 0 and MaxInvestments > 0; a rejected UpdateConfig returns an  *)
(* error and leaves the strategy with its previous configuration, an        *)
(* accepted one installs its argument.                                      *)
DCAConfigValid(c) ==
    /\ c.Symbol # ""
    /\ c.InvestmentAmount > 0
    /\ c.Interval > 0
    /\ c.MaxInvestments > 0
C10_Step ==
    /\ (mode = "cfg" /\ last'.op \in {"DCAStrategy.ValidateConfig",
                                      "DCAStrategy.validateConfig",
                                      "Factory.validateDCAConfig"})
          => (last'.err = Nil <=> DCAConfigValid(cf.c))
    /\ (mode = "dca" /\ last'.op = "DCAStrategy.UpdateConfig")
          => /\ last'.err = Nil <=> DCAConfigValid(last'.arg)
             /\ last'.err # Nil => ds' = ds
             /\ last'.err = Nil => ds' = [ds EXCEPT !.config = last'.arg]
C10_DCAConfigValidated == [][C10_Step]_vars

\* A strategy that has bought, whose UpdateConfig was rejected for the
\* interval alone
C10_Witness ==
    /\ mode = "dca" /\ last.op = "DCAStrategy.UpdateConfig" /\ last.err # Nil
    /\ ds.buyCount > 0
    /\ last.arg.Symbol # "" /\ last.arg.InvestmentAmount > 0
    /\ last.arg.MaxInvestments > 0 /\ last.arg.Interval <= 0

\* grid.go lines 46-48: what the sale of level i at close p realizes over the
\* entry price of the position
sellPnL(b, i, p) == RMul(b.positions[i].qty, RSub(R(p), b.positions[i].avg))

\* The second candle of scenario A: the first one closed at 40000 inside the
\* window and this one closes at 45000 inside the window
ScenarioA_SecondStep ==
    /\ mode = "btgrid" /\ bg.cfg = ScenarioA /\ bg.n = 1
    /\ last.retained /\ last.close = 40000
    /\ last'.op = "BacktestGrid.candle" /\ last'.retained /\ last'.close = 45000

(* C11  Scenario A (lower 40000, upper 50000, 5 levels, 100 per level, no   *)
(* fee, closes 40000 then 45000): the levels are 40000, 42500, 45000,       *)
(* 47500, 50000; at 40000 level 0 buys; at 45000 level 2 buys and level 0   *)
(* sells, and that sale realizes (42500 - 40000) * qty0, qty0 = 100/40000.  *)
(* Levels are numbered from 1 here, so level 0 is index 1.                  *)
C11_Step ==
    /\ (mode = "btgrid" /\ bg.cfg = ScenarioA)
          => bg.levels = <<R(40000), R(42500), R(45000), R(47500), R(50000)>>
    /\ (mode = "btgrid" /\ bg.cfg = ScenarioA /\ bg.n = 0
          /\ last'.op = "BacktestGrid.candle"
          /\ last'.retained /\ last'.close = 40000)
          => 1 \in last'.buys
    /\ ScenarioA_SecondStep
          => /\ 3 \in last'.buys
             /\ 1 \in last'.sells
             /\ sellPnL(bg, 1, last'.close)
                    = RMul(R(42500 - 40000), Rat(100, 40000))
C11_ScenarioA == [][C11_Step]_vars

\* The second step of scenario B: the first candle closed at 45000 inside
\* the window and this one, one interval later, closes at 44000 inside it
ScenarioB_SecondStep ==
    /\ mode = "btdca" /\ bd.cfg = ScenarioB /\ bd.n = 1
    /\ last.retained /\ last.close = 45000
    /\ last'.op = "BacktestDCA.candle" /\ last'.retained
    /\ last'.time = last.time + bd.cfg.Interval /\ last'.close = 44000

\* buyCount and the average entry price the scenario expects
ScenarioB_Expected ==
    /\ bd'.trades = 2
    /\ BacktestDCA_avg(bd') = RDiv(R(200), RAdd(Rat(100, 45000), Rat(100, 44000)))

peakAt(e, t) ==
    CHOOSE v \in {e[i] : i \in 1 .. t} : \A i \in 1 .. t : RLe(e[i], v)

\* (peak_t - equity_t) / peak_t
drawdownAt(e, t) == RDiv(RSub(peakAt(e, t), e[t]), peakAt(e, t))

\* The maximum over t of the drawdown at t
maxOverT(e) ==
    CHOOSE d \in {drawdownAt(e, t) : t \in DOMAIN e} :
        \A t \in DOMAIN e : RLe(drawdownAt(e, t), d)

\* The quotient is defined at every sample: no running maximum is 0
PeaksNonZero(e) == \A t \in DOMAIN e : peakAt(e, t) # R(0)

(* C13  For every non-empty equity curve (whose running maximum is never 0, *)
(* so that the quotient is defined), MaxDrawdown returned by                *)
(* computePerformance is 100 times the maximum over t of                    *)
(* (peak_t - equity_t) / peak_t, peak_t the running maximum up to and       *)
(* including t; for the curve 10000, 9000, 11000 it is 10.                  *)
C13_MaxDrawdownFormula ==
    (mode = "perf" /\ last.op = "computePerformance" /\ Len(pf.equity) > 0)
        => /\ PeaksNonZero(pf.equity)
                 => last.result.MaxDrawdown = RMul(R(100), maxOverT(pf.equity))
           /\ pf.equity = ScenarioC => last.result.MaxDrawdown = R(10)

\* computePerformance has returned for the curve of scenario C
C13_Witness ==
    /\ mode = "perf" /\ last.op = "computePerformance"
    /\ pf.equity = ScenarioC
    /\ last.result.MaxDrawdown = R(10)

\* A percentage between 0 and 100
IsPercentage(x) == RGe(x, R(0)) /\ RLe(x, R(100))

(* C14  In every result returned by BacktestGrid and BacktestDCA, for any   *)
(* candle series, window, configuration and initial balance, MaxDrawdown    *)
(* is between 0 and 100 and WinRate is between 0 and 100.                   *)
C14_MetricsInRange ==
    (last.op \in {"BacktestGrid.return", "BacktestDCA.return"})
        => /\ IsPercentage(last.result.MaxDrawdown)
           /\ IsPercentage(last.result.WinRate)

(* C15  When no candle falls inside [start, end], an empty candle slice     *)
(* included, BacktestGrid and BacktestDCA both return the all-zero          *)
(* PerformanceMetrics, and computePerformance of an empty equity curve      *)
(* returns the all-zero metrics.                                            *)
C15_EmptyGivesZero ==
    /\ (last.op = "BacktestGrid.return" /\ bg.equity = <<>>)
          => last.result = ZeroMetrics
    /\ (last.op = "BacktestDCA.return" /\ bd.equity = <<>>)
          => last.result = ZeroMetrics
    /\ (last.op = "computePerformance" /\ pf.equity = <<>>)
          => last.result = ZeroMetrics

\* BacktestDCA has returned after reading candles that all lie outside the
\* window
C15_Witness ==
    /\ last.op = "BacktestDCA.return"
    /\ bd.n > 0 /\ bd.equity = <<>>
    /\ last.result = ZeroMetrics

\* The step returns e[i]/e[i-1] - 1 of curve e as real numbers, over the
\* steps whose previous equity is not 0
RECURSIVE realReturns(_, _)
realReturns(e, i) ==
    IF i > Len(e) THEN <<>>
    ELSE IF e[i - 1] = R(0) THEN realReturns(e, i + 1)
    ELSE <<RSub(RDiv(e[i], e[i - 1]), R(1))>> \o realReturns(e, i + 1)

\* Every step return of e is equal, which includes having none
EqualReturns(e) ==
    Len(e) < 2 \/ LET r == realReturns(e, 2)
                  IN  \A i, j \in DOMAIN r : r[i] = r[j]

(* C16  computePerformance resolves degenerate inputs to zero: SharpeRatio  *)
(* and VolatilityImpact are 0 when the curve has fewer than 2 samples or    *)
(* every step return is equal, steps whose previous equity is 0 being       *)
(* skipped; AnnualizedReturn is 0 when the period is zero or negative.      *)
C16_DegenerateGivesZero ==
    (last.op = "computePerformance" /\ Len(pf.equity) > 0)
        => /\ EqualReturns(pf.equity)
                 => /\ last.result.SharpeRatio = R(0)
                    /\ last.result.VolatilityImpact = R(0)
           /\ last.period <= 0 => last.result.AnnualizedReturn = R(0)

\* The sum range produces when it happens to visit the held keys in
\* ascending order
ascendingSum(positions) ==
    LET keys == heldKeys(positions)
        o == CHOOSE f \in RangeOrders(keys) : \A i, j \in DOMAIN f : i < j => f[i] < f[j]
    IN  invQtyAlong(positions, o, Len(o))

(* C17  Backtesting is deterministic: what a step of BacktestGrid computes  *)
(* is a function of the state before the step and the candle, so that two   *)
(* runs on identical candles, window, configuration and initial balance     *)
(* compute the same equity samples and return identical metrics.  In        *)
(* particular the held quantity invQty an equity sample is computed from    *)
(* is the one any visiting order of the positions gives.                    *)
C17_Step ==
    (mode = "btgrid" /\ last'.op = "BacktestGrid.candle")
        => bg' = BacktestGrid_candle(bg, last'.time, last'.close,
                     IF last'.retained
                     THEN ascendingSum(
                              BacktestGrid_trade(bg, last'.time, last'.close).b.positions)
                     ELSE bg.invQty).b
C17_Deterministic == [][C17_Step]_vars

(* C18  BacktestGrid processes exactly the candles with                     *)
(* start <= time <= end, in slice order, and appends exactly one equity     *)
(* sample, cash plus held quantity times close, per retained candle; a      *)
(* candle outside the window changes neither the locals of the run (but     *)
(* the position in the slice) nor the metrics returned.                     *)
C18_Step ==
    (mode = "btgrid" /\ last'.op = "BacktestGrid.candle")
        => /\ last'.retained <=> (bg.start <= last'.time /\ last'.time <= bg.end)
           /\ bg'.n = bg.n + 1
           /\ last'.retained
                 => /\ Len(bg'.equity) = Len(bg.equity) + 1
                    /\ SubSeq(bg'.equity, 1, Len(bg.equity)) = bg.equity
                    /\ bg'.equity[Len(bg'.equity)]
                           = RAdd(bg'.cash,
                                  RMul(SumQty(bg'.positions, 1), R(last'.close)))
           /\ ~last'.retained
                 => /\ bg' = [bg EXCEPT !.t = last'.time, !.n = @ + 1]
                    /\ BacktestGrid_return(bg') = BacktestGrid_return(bg)
C18_WindowFiltering == [][C18_Step]_vars

\* A candle after the window was skipped by a run that holds a position
C18_Witness ==
    /\ mode = "btgrid" /\ last.op = "BacktestGrid.candle"
    /\ ~last.retained /\ last.time > bg.end
    /\ bg.trades > 0 /\ Len(bg.equity) = 1

(* C19  The metrics returned by BacktestDCA, WinRate included, depend only  *)
(* on the candles inside [start, end]: a candle outside the window leaves   *)
(* the metrics the run returns as they were without it.                     *)
C19_Step ==
    (mode = "btdca" /\ last'.op = "BacktestDCA.candle" /\ ~last'.retained)
        => BacktestDCA_return(bd') = BacktestDCA_return(bd)
C19_OnlyWindowCandles == [][C19_Step]_vars

\* The classification of the change from close c1 to close c2: bull above
\* +10%, bear below -10%, sideways otherwise
classify(c1, c2) ==
    LET chg == RSub(RDiv(R(c2), R(c1)), R(1))
    IN  IF RGt(chg, Rat(1, 10)) THEN "bull"
        ELSE IF RLt(chg, Rat(0 - 1, 10)) THEN "bear"
        ELSE "sideways"

(* C20  analyzeMarketCondition classifies a window from its first and last  *)
(* retained close: bull iff last/first - 1 > 0.10, bear iff                 *)
(* last/first - 1 < -0.10, sideways otherwise, which includes a change of   *)
(* exactly +10% or -10% and a window without retained candle; it never      *)
(* returns the high-volatility label.  (Stated for a first retained close   *)
(* other than 0.)                                                           *)
C20_Classification ==
    (last.op = "analyzeMarketCondition.return")
        => /\ last.result \in {"bull", "bear", "sideways"}
           /\ mk.hCloses = <<>> => last.result = "sideways"
           /\ (mk.hCloses # <<>> /\ mk.hCloses[1] # 0)
                 => last.result = classify(mk.hCloses[1], mk.hCloses[Len(mk.hCloses)])

(* C21  CompareStrategies evaluates the two strategies independently on    *)
(* the same window and initial balance: its DCAResults are what a call of   *)
(* BacktestDCA on its own returns and its GridResults what a call of        *)
(* BacktestGrid on its own with the same arguments returns (the same        *)
(* metrics, computed from the same equity samples, hence from the same      *)
(* float64 sums of held quantities), in whatever order the calls are made;  *)
(* Period is end - start and MarketType what analyzeMarketCondition gives   *)
(* on the same window.                                                      *)
C21_SameAsStandalone ==
    (mode = "compare" /\ cp.cmp # NotCalled)
        => /\ cp.cmp.Period = cp.end - cp.start
           /\ cp.dca # NotCalled => cp.cmp.DCAResults = cp.dca
           /\ cp.market # Nil => cp.cmp.MarketType = cp.market
           /\ cp.grid # NotCalled => /\ cp.cmp.GridResults = cp.grid
                               /\ cp.hInvQtyCmp = cp.hInvQtyGrid

(* C22  In live mode Execute holds the write lock of the strategy for the   *)
(* whole step and GetStatus, GetMetrics and GetSignal hold the read lock:   *)
(* under every interleaving of the Execute of the trading loop with the     *)
(* queries, what a query returns is what it would return on the strategy    *)
(* as the last completed step left it, never a state from the middle of a   *)
(* step (an order stored or buyCount incremented, the metrics not yet       *)
(* updated).                                                                *)
C22_NoHalfStepObserved ==
    (mode = "bot" /\ last.op \in Queries \cup {"loop.GetMetrics"})
        => last.result = QueryResult(bot.kind,
                                     IF last.op \in Queries THEN last.op ELSE "GetMetrics",
                                     bot.hCommitted,
                                     IF last.op \in Queries THEN R(last.price) ELSE R(1),
                                     now)

\* A query returns, after a first order, while Execute waits for the lock
C22_Witness ==
    /\ mode = "bot" /\ last.op = "GetStatus" /\ bot.loop = "lock"
    /\ Strat.metrics.TotalTrades > 0

(* C23  On shutdown of a bot process (termination signal received in main)  *)
(* the trading loop is stopped by the cancellation and an Execute in flight *)
(* completes before teardown: once the signal is received the loop takes   *)
(* no new tick, strategy Shutdown does not run while an Execute is in       *)
(* flight, and the process does not exit with an Execute cut off mid-way.   *)
C23_Step ==
    mode = "bot"
        => /\ (bot.main # "wait" /\ bot.loop = "select") => bot'.loop # "fetch"
           /\ (bot.main = "shutdown" /\ bot'.main # "shutdown") => bot.loop \notin InExecute
           /\ (~bot.exited /\ bot'.exited) => bot.loop \notin InExecute
C23_GracefulShutdown == [][C23_Step]_vars

(* C28  In the live trading loop a tick whose market-data fetch or Execute  *)
(* fails is skipped: the loop goes back to its select without an Execute    *)
(* (fetch) or after the one Execute (Execute), it does not return, it calls *)
(* Execute at most once per tick, and it returns only on cancellation; once *)
(* the context is cancelled the loop takes no further tick, so that it      *)
(* starts no further Execute.                                               *)
C28_Step ==
    mode = "bot"
        => /\ (last'.op = "getMarketData" /\ last'.err # Nil)
                => bot'.loop = "select" /\ ~bot'.hTickUsed /\ gs' = gs /\ ds' = ds
           /\ (last'.op = "Execute.return" /\ last'.err # Nil) => bot'.loop = "logMetrics"
           /\ (bot.loop = "fetch" /\ bot'.loop = "lock") => ~bot.hTickUsed
           /\ (bot.loop # "returned" /\ bot'.loop = "returned") => bot.ctxDone
           /\ (bot.ctxDone /\ bot.loop = "select") => bot'.loop # "fetch"
C28_TickSkipped == [][C28_Step]_vars

(* C24  Before any buy the engine consults the capital/risk gate            *)
(* canTrade(amount, symbol); when the gate answers false the step places no *)
(* order, leaves the state of the engine unchanged and returns no error.    *)
C24_Step ==
    (mode = "risk" /\ last'.op = "DCAStrategy.initiateFirstOrder" /\ ~last'.canTrade)
        => /\ rk' = rk
           /\ last'.err = Nil
C24_GateDenialIsSkip == [][C24_Step]_vars

(* C25  The live grid strategy buys when the price falls and sells when it  *)
(* rises: for a valid enabled GridStrategy with a buy order placed at some  *)
(* level, an Execute with an in-range price at or above the next higher     *)
(* level places a sell order.                                               *)
C25_Step ==
    (/\ mode = "grid" /\ last'.op = "GridStrategy.Execute" /\ last'.err = Nil
     /\ gs.config.Enabled
     /\ last'.price >= gs.config.LowerPrice /\ last'.price <= gs.config.UpperPrice
     /\ \E i \in 1 .. Len(gs.gridLevels) - 1 :
            /\ \E id \in DOMAIN gs.activeOrders :
                   /\ gs.activeOrders[id].Side = "BUY"
                   /\ REq(gs.activeOrders[id].Price, gs.gridLevels[i])
            /\ RGe(R(last'.price), gs.gridLevels[i + 1]))
        => \E k \in Len(gs.exchange) + 1 .. Len(gs'.exchange) :
               gs'.exchange[k].Side = "SELL"
C25_SellsWhenPriceRises == [][C25_Step]_vars

\* A strategy that has not bought yet
FreshDCA(d) == d.buyCount = 0 /\ d.lastBuy = ZeroTime /\ d.exchange = <<>>

\* The one order the first buy at price p sends to the exchange
FirstOrder(d, p) ==
    [Symbol |-> d.config.Symbol, Side |-> "BUY", Type |-> "MARKET",
     Quantity |-> RDiv(R(d.config.InvestmentAmount), R(p)), Price |-> R(p)]

\* A newly constructed strategy has made no buy and no trade
C26_NewIsEmpty ==
    (mode = "dca" /\ last.op = "init")
        => /\ ds.buyCount = 0
           /\ ds.metrics.TotalTrades = 0
           /\ REq(ds.metrics.TotalVolume, R(0))

\* An Execute before the interval since the last buy has elapsed places no order
C26_SecondTooEarly ==
    (/\ mode = "dca" /\ last'.op = "DCAStrategy.Execute"
     /\ ~FreshDCA(ds) /\ Since(ds.lastBuy, now) < ds.config.Interval)
        => ds'.exchange = ds.exchange /\ ds'.buyCount = ds.buyCount

\* C26 as stated: the first Execute of any fresh enabled strategy buys
C26_AsStatedStep ==
    /\ C26_NewIsEmpty
    /\ (mode = "dca" /\ last'.op = "DCAStrategy.Execute"
        /\ ds.config.Enabled /\ FreshDCA(ds))
           => /\ ds'.exchange = <<FirstOrder(ds, last'.price)>>
              /\ ds'.buyCount = 1
    /\ C26_SecondTooEarly
C26_AsStated == [][C26_AsStatedStep]_vars

(* C26  A newly constructed DCAStrategy has buyCount 0, zero TotalTrades    *)
(* and zero TotalVolume; the first Execute on a fresh enabled strategy      *)
(* whose price passes the optional threshold and whose MaxInvestments is at *)
(* least 1 places exactly one market buy order for the configured symbol    *)
(* with quantity InvestmentAmount/price and raises buyCount to 1, unless    *)
(* the exchange rejects the order (then Execute returns the error and       *)
(* nothing changes); a second Execute before the interval has elapsed       *)
(* places no further order.                                                 *)
C26_Step ==
    /\ C26_NewIsEmpty
    /\ (/\ mode = "dca" /\ last'.op = "DCAStrategy.Execute"
        /\ ds.config.Enabled /\ FreshDCA(ds)
        /\ ds.config.MaxInvestments >= 1
        /\ (ds.config.PriceThreshold > 0 => last'.price <= ds.config.PriceThreshold))
           => \/ last'.err # Nil /\ ds' = ds
              \/ /\ last'.err = Nil
                 /\ ds'.exchange = <<FirstOrder(ds, last'.price)>>
                 /\ ds'.buyCount = 1
    /\ C26_SecondTooEarly
C26_FirstExecuteBuys == [][C26_Step]_vars

\* A second Execute arrives before the interval has elapsed
C26_Witness ==
    /\ mode = "dca" /\ last.op = "DCAStrategy.Execute"
    /\ ds.buyCount = 1 /\ Len(ds.exchange) = 1
    /\ ~last.bought
    /\ last.prevBuy # ZeroTime
    /\ Since(ds.lastBuy, now) < ds.config.Interval

\* The levels of g that are at or above price p, and those above level l
LevelsAtOrAbove(g, p) == {i \in 1 .. Len(g.gridLevels) : RLe(p, g.gridLevels[i])}
LevelsAbove(g, l) == {i \in 1 .. Len(g.gridLevels) : RLt(l, g.gridLevels[i])}

\* l is the lowest of the levels of g with index in S
LowestOf(g, S, l) ==
    \E i \in S : /\ REq(l, g.gridLevels[i])
                 /\ \A j \in S : RLe(g.gridLevels[i], g.gridLevels[j])

(* C27  findNearestLevels(price): for a price inside [LowerPrice,           *)
(* UpperPrice] the buy level is the lowest grid level that is >= price and  *)
(* the sell level is the grid level directly above the buy level (0 when    *)
(* the buy level is the top level); for a price outside the range both      *)
(* results are 0.                                                           *)
C27_NearestLevels ==
    (mode = "grid" /\ last.op = "GridStrategy.findNearestLevels")
        => IF RLt(last.price, R(gs.config.LowerPrice))
              \/ RGt(last.price, R(gs.config.UpperPrice))
           THEN REq(last.buyLevel, R(0)) /\ REq(last.sellLevel, R(0))
           ELSE /\ LowestOf(gs, LevelsAtOrAbove(gs, last.price), last.buyLevel)
                /\ IF LevelsAbove(gs, last.buyLevel) = {}
                   THEN REq(last.sellLevel, R(0))
                   ELSE LowestOf(gs, LevelsAbove(gs, last.buyLevel), last.sellLevel)

\* The buy rule of the specified step at level i
BuyRule(b, i, p) ==
    IF /\ RLe(p, b.levels[i])
       /\ REq(b.positions[i].qty, R(0))
       /\ RGe(b.cash, R(b.cfg.InvestmentPerLevel))
    THEN LET fee == RMul(R(b.cfg.InvestmentPerLevel), b.feeRate)
             qty == RDiv(RSub(R(b.cfg.InvestmentPerLevel), fee), p)
         IN  [b |-> [b EXCEPT !.positions[i] = [qty |-> qty, avg |-> p],
                              !.cash = RSub(@, R(b.cfg.InvestmentPerLevel))],
              acted |-> TRUE]
    ELSE [b |-> b, acted |-> FALSE]

\* The sell rule of the specified step at level i
SellRule(b, i, p) ==
    IF /\ RGt(b.positions[i].qty, R(0))
       /\ i + 1 <= Len(b.levels)
       /\ RGe(p, b.levels[i + 1])
    THEN LET proceeds == RMul(b.positions[i].qty, p)
             fee == RMul(proceeds, b.feeRate)
         IN  [b |-> [b EXCEPT !.cash = RAdd(@, RSub(proceeds, fee)),
                              !.positions[i] = pos0],
              acted |-> TRUE]
    ELSE [b |-> b, acted |-> FALSE]

\* The specified step: every level in ascending order, the buy rule and then
\* the sell rule at that level
RECURSIVE LevelByLevel(_, _, _, _, _)
LevelByLevel(b, i, p, buys, sells) ==
    IF i > Len(b.levels) THEN [b |-> b, buys |-> buys, sells |-> sells]
    ELSE LET bought == BuyRule(b, i, p)
             sold == SellRule(bought.b, i, p)
         IN  LevelByLevel(sold.b, i + 1, p,
                          IF bought.acted THEN buys \cup {i} ELSE buys,
                          IF sold.acted THEN sells \cup {i} ELSE sells)

(* C29  One BacktestGrid candle step is equivalent to the specified step    *)
(* that visits every level in ascending order and applies the buy rule then *)
(* the sell rule at that level: for every reachable state (including states *)
(* where cash is below InvestmentPerLevel) and every price, both produce    *)
(* the same positions, the same cash and the same set of buy and sell       *)
(* orders.                                                                  *)
C29_Step ==
    (mode = "btgrid" /\ last'.op = "BacktestGrid.candle" /\ last'.retained)
        => LET s == LevelByLevel(bg, 1, R(last'.close), {}, {})
           IN  /\ bg'.positions = s.b.positions
               /\ bg'.cash = s.b.cash
               /\ last'.buys = s.buys
               /\ last'.sells = s.sells
C29_SameAsLevelByLevel == [][C29_Step]_vars

\* The locals with the positions as the buys of the step at price p leave them
AfterBuys(b, buys, p) ==
    [b EXCEPT !.positions =
        [i \in DOMAIN b.positions |->
            IF i \in buys
            THEN [qty |-> RDiv(RSub(R(b.cfg.InvestmentPerLevel),
                                    RMul(R(b.cfg.InvestmentPerLevel), b.feeRate)), p),
                  avg |-> p]
            ELSE b.positions[i]]]

\* What the sales of the levels in S from i on credit to cash at price p:
\* proceeds minus fee of each position as it was when the sales began
RECURSIVE Credited(_, _, _, _)
Credited(b, S, i, p) ==
    IF i > Len(b.levels) THEN R(0)
    ELSE IF i \in S
         THEN LET proceeds == RMul(b.positions[i].qty, p)
              IN  RAdd(RSub(proceeds, RMul(proceeds, b.feeRate)),
                       Credited(b, S, i + 1, p))
         ELSE Credited(b, S, i + 1, p)

(* C30  After every BacktestGrid step, no level i below the top level holds *)
(* a position while the price of the step is >= level[i+1] (every such      *)
(* position was sold and reset to empty with proceeds minus fee credited to *)
(* cash); the top level has no sell rule, so a position opened at the top   *)
(* level stays open for the rest of the run.                                *)
C30_Step ==
    mode = "btgrid" =>
        LET top == Len(bg.levels)
            p == R(last'.close)
        IN  /\ (last'.op = "BacktestGrid.candle" /\ last'.retained)
                  => /\ \A i \in 1 .. top - 1 :
                            ~(RGt(bg'.positions[i].qty, R(0)) /\ RGe(p, bg.levels[i + 1]))
                     /\ \A i \in 1 .. top - 1 :
                            (RGt(bg.positions[i].qty, R(0)) /\ RGe(p, bg.levels[i + 1]))
                                => i \in last'.sells /\ bg'.positions[i] = pos0
                     /\ top \notin last'.sells
                     /\ REq(bg'.cash,
                            RAdd(RSub(bg.cash,
                                      RMul(R(Cardinality(last'.buys)),
                                           R(bg.cfg.InvestmentPerLevel))),
                                 Credited(AfterBuys(bg, last'.buys, p),
                                          last'.sells, 1, p)))
            /\ RGt(bg.positions[top].qty, R(0)) => bg'.positions[top] = bg.positions[top]
C30_SoldWhenNextLevelReached == [][C30_Step]_vars

\* A step has sold a lower level while the top level holds a position
C30_Witness ==
    /\ mode = "btgrid" /\ last.op = "BacktestGrid.candle" /\ last.retained
    /\ last.sells # {}
    /\ RGt(bg.positions[Len(bg.levels)].qty, R(0))

\* The fees of the sales of the levels in S from i on at price p: proceeds
\* times feeRate of each position as it was when the sales began
RECURSIVE SellFees(_, _, _, _)
SellFees(b, S, i, p) ==
    IF i > Len(b.levels) THEN R(0)
    ELSE IF i \in S
         THEN RAdd(RMul(RMul(b.positions[i].qty, p), b.feeRate),
                   SellFees(b, S, i + 1, p))
         ELSE SellFees(b, S, i + 1, p)

\* The fees charged by a step that bought the levels buys and sold the
\* levels sells at price p
StepFees(b, buys, sells, p) ==
    RAdd(RMul(R(Cardinality(buys)), RMul(R(b.cfg.InvestmentPerLevel), b.feeRate)),
         SellFees(AfterBuys(b, buys, p), sells, 1, p))

(* C31  Equity accounting in BacktestGrid: for consecutive retained candles *)
(* t-1 and t, equity_t = equity_(t-1) + heldQuantity_(t-1) x (close_t -     *)
(* close_(t-1)) - fees charged in step t, where each buy charges            *)
(* InvestmentPerLevel x feeRate and each sell charges proceeds x feeRate;   *)
(* TotalFees is the sum of these charges, and with feeRate = 0 executing    *)
(* trades never changes equity.                                             *)
C31_Step ==
    (mode = "btgrid" /\ last'.op = "BacktestGrid.candle" /\ last'.retained)
        => LET p == R(last'.close)
               fees == StepFees(bg, last'.buys, last'.sells, p)
               held == SumQty(bg.positions, 1)
               equity_t == bg'.equity[Len(bg'.equity)]
           IN  /\ Len(bg'.equity) = Len(bg.equity) + 1
               /\ REq(bg'.totalFees, RAdd(bg.totalFees, fees))
               /\ (last.op = "BacktestGrid.candle" /\ last.retained)
                     => REq(equity_t,
                            RSub(RAdd(bg.equity[Len(bg.equity)],
                                      RMul(held, RSub(p, R(last.close)))),
                                 fees))
               /\ bg.equity = <<>>
                     => REq(equity_t, RSub(R(bg.initialBalance), fees))
               /\ REq(bg.feeRate, R(0))
                     => REq(equity_t, RAdd(bg.cash, RMul(held, p)))
C32_Step ==
    /\ (mode = "dca" /\ last'.op = "DCAStrategy.Execute" /\ last'.err # Nil)
          => /\ ds'.buyCount = ds.buyCount
             /\ ds'.lastBuy = ds.lastBuy
             /\ ds'.metrics = ds.metrics
             /\ ds'.exchange = ds.exchange
             /\ LET again == DCAStrategy_Execute(ds', R(last'.price), now', TRUE)
                IN  /\ again.err = Nil
                    /\ Len(again.d.exchange) = Len(ds.exchange) + 1
                    /\ again.d.buyCount = ds.buyCount + 1
    /\ (mode = "grid" /\ last'.op = "GridStrategy.Execute" /\ last'.err # Nil)
          => /\ gs'.activeOrders = gs.activeOrders
             /\ gs'.metrics = gs.metrics
             /\ gs'.exchange = gs.exchange
             /\ LET again == GridStrategy_Execute(gs', R(last'.price), TRUE, TRUE)
                IN  /\ again.err = Nil
                    /\ Len(again.g.exchange) = Len(gs.exchange) + 1
                    /\ again.g.metrics.TotalTrades = gs.metrics.TotalTrades + 1
C32_FailedOrderLeavesState == [][C32_Step]_vars

\* An order failed after an earlier one had been placed and counted
C32_Witness ==
    \/ /\ mode = "dca" /\ last.op = "DCAStrategy.Execute" /\ last.err # Nil
       /\ ds.buyCount = 1 /\ ds.metrics.TotalTrades = 1
    \/ /\ mode = "grid" /\ last.op = "GridStrategy.Execute" /\ last.err # Nil
       /\ gs.metrics.TotalTrades = 1 /\ Len(gs.exchange) = 1

(* C33  In the live DCAStrategy, buyCount <= config.MaxInvestments holds in *)
(* every reachable state under any interleaving of Execute and UpdateConfig *)
(* calls, including states reached after UpdateConfig accepted a            *)
(* configuration with a smaller MaxInvestments.                            *)
C33_BuyCountWithinConfig ==
    mode = "dca" => ds.buyCount <= ds.config.MaxInvestments

(* C34  GridStrategy.Shutdown never reads activeOrders while an Execute     *)
(* step is writing it: under every interleaving of the shutdown path in     *)
(* main with the still-running trading loop, each access to activeOrders    *)
(* happens with the strategy mutex held, so Shutdown reads the map only     *)
(* while no Execute holds the write lock.                                   *)
C34_Step ==
    (mode = "bot" /\ bot.kind = "grid" /\ last'.op = "Shutdown")
        => ~bot.writer
C34_ShutdownUnderLock == [][C34_Step]_vars

(* C35  After Shutdown of a DCAStrategy or GridStrategy has returned, no    *)
(* later Execute call places an order on the exchange or changes buyCount,  *)
(* activeOrders or metrics.                                                 *)
C35_Step ==
    (mode = "bot" /\ last'.op = "Execute.step" /\ bot.hAfterShutdown)
        => IF bot.kind = "grid"
           THEN /\ gs'.exchange = gs.exchange
                /\ gs'.activeOrders = gs.activeOrders
                /\ gs'.metrics = gs.metrics
           ELSE /\ ds'.exchange = ds.exchange
                /\ ds'.buyCount = ds.buyCount
                /\ ds'.metrics = ds.metrics
C35_NoOrderAfterShutdown == [][C35_Step]_vars

\* An Execute of d at price p and time clock would attempt to place a buy
\* order: with an exchange that accepts it, an order reaches the exchange
WouldBuy(d, p, clock) ==
    Len(DCAStrategy_Execute(d, p, clock, TRUE).d.exchange) = Len(d.exchange) + 1

(* C36  DCAStrategy.GetSignal agrees with Execute: in every state and for   *)
(* every market input, GetSignal returns Buy if and only if an Execute call *)
(* in the same state with the same input would attempt to place a buy order *)
(* (and Hold otherwise), including when the strategy is disabled.           *)
C36_SignalAgreesWithExecute ==
    (mode = "dca" /\ last.op = "DCAStrategy.GetSignal")
        => /\ last.signal \in {"BUY", "HOLD"}
           /\ last.signal = "BUY" <=> WouldBuy(ds, R(last.price), now)

(* C37  In BacktestGrid and BacktestDCA, with initialBalance >= 0,          *)
(* 0 <= feeRate <= 1 and positive prices, cash is never negative after any  *)
(* step; in BacktestDCA the total amount invested never exceeds             *)
(* initialBalance and each buy invests min(InvestmentAmount, remaining      *)
(* cash).                                                                   *)
C37_Step ==
    /\ mode = "btgrid" => RGe(bg.cash, R(0)) /\ RGe(bg'.cash, R(0))
    /\ mode = "btdca"
          => /\ RGe(bd.cash, R(0)) /\ RGe(bd'.cash, R(0))
             /\ RLe(RSub(R(bd.initialBalance), bd'.cash), R(bd.initialBalance))
             /\ (last'.op = "BacktestDCA.candle" /\ last'.bought)
                   => REq(RSub(bd.cash, bd'.cash),
                          IF RLt(bd.cash, R(bd.cfg.InvestmentAmount))
                          THEN bd.cash ELSE R(bd.cfg.InvestmentAmount))
             /\ (last'.op = "BacktestDCA.candle" /\ ~last'.bought)
                   => bd'.cash = bd.cash
C37_CashNeverNegative == [][C37_Step]_vars

\* A buy that the remaining cash capped below InvestmentAmount
C37_Witness ==
    /\ mode = "btdca" /\ last.op = "BacktestDCA.candle" /\ last.bought
    /\ bd.trades = 2
    /\ REq(bd.cash, R(0))
    /\ bd.initialBalance = 3 /\ bd.cfg.InvestmentAmount = 2

(* C38  In BacktestGrid a level is never bought and sold in the same step,  *)
(* and every sell executes at a price strictly above the entry price of the *)
(* position it closes; hence the win count always equals the number of      *)
(* sells, sells never exceed buys, and WinRate never exceeds 50.            *)
C38_Step ==
    /\ (mode = "btgrid" /\ last'.op = "BacktestGrid.candle" /\ last'.retained)
          => LET p == R(last'.close)
                 entry(i) == IF i \in last'.buys THEN p ELSE bg.positions[i].avg
             IN  /\ last'.buys \cap last'.sells = {}
                 /\ \A i \in last'.sells : RGt(p, entry(i))
                 /\ bg'.wins = bg.wins + Cardinality(last'.sells)
                 /\ bg'.trades = bg.trades + Cardinality(last'.buys)
                                           + Cardinality(last'.sells)
                 /\ 2 * bg'.wins <= bg'.trades
    /\ (mode = "btgrid" /\ last'.op = "BacktestGrid.return")
          => RLe(last'.result.WinRate, R(50))
C38_SellsAboveEntry == [][C38_Step]_vars

(* C39  In the live DCAStrategy, metrics.TotalTrades equals buyCount in     *)
(* every reachable state, and both (together with lastBuy and TotalVolume)  *)
(* change only inside an Execute whose PlaceOrder succeeded.                *)
C39_Step ==
    /\ mode \in {"dca", "combo"}
          => /\ ds.metrics.TotalTrades = ds.buyCount
             /\ ds'.metrics.TotalTrades = ds'.buyCount
    /\ (/\ mode = "dca"
        /\ \/ ds'.buyCount # ds.buyCount
           \/ ds'.metrics # ds.metrics
           \/ ds'.lastBuy # ds.lastBuy)
          => /\ last'.op = "DCAStrategy.Execute"
             /\ last'.err = Nil
             /\ Len(ds'.exchange) = Len(ds.exchange) + 1
             /\ ds'.buyCount = ds.buyCount + 1
             /\ ds'.lastBuy = now
             /\ REq(ds'.metrics.TotalVolume,
                    RAdd(ds.metrics.TotalVolume,
                         RMul(ds'.exchange[Len(ds'.exchange)].Quantity, R(last'.price))))
C39_TradesEqualBuyCount == [][C39_Step]_vars

\* Two buys counted, with a failed order and a change of configuration on
\* the way
C39_Witness ==
    /\ mode = "dca" /\ last.op = "DCAStrategy.Execute" /\ last.bought
    /\ ds.buyCount = 2 /\ ds.metrics.TotalTrades = 2
    /\ Len(ds.exchange) = 2

=============================================================================
